---- MODULE Spec2Model ----
(***************************************************************************)
(* A model of the political-contribution-monitor backend: the name         *)
(* normaliser, the exact / fuzzy lookup, the filter pipeline, the bulk      *)
(* aggregation and the export cache.                                        *)
(*                                                                          *)
(* Strings are sequences of characters (one-element strings such as "a",    *)
(* or a symbolic name such as "TAB" for a character that cannot be written  *)
(* in a string literal).  The empty sequence << >> is the empty string.     *)
(***************************************************************************)
EXTENDS Integers, Sequences, FiniteSets, TLC

VARIABLES
    phase,               \* server.js: "loading" until loadDataAndCreateIndex resolves
    contributions,       \* the record set handed to the routers
    searchResultsCache,  \* server.js:26, the Map searchId -> records
    timers,              \* pending setTimeout callbacks (bulkSearch.js:89): searchId and due time
    now,                 \* the clock, in ticks
    nextId,              \* number of identifiers uuidv4() has produced so far
    resp,                \* the response of the last request served
    nin,                 \* normaliser harness: the input string
    nout,                \* normaliser harness: normalizeName(nin)
    nout2,               \* normaliser harness: normalizeName(nout)
    npc,                 \* normaliser harness: how often normalizeName was applied
    nodeEnv,             \* server.js:90, process.env.NODE_ENV
    state,               \* SearchContext.tsx:147, the state of useReducer
    pageNames,           \* BulkSearch.tsx: names, the text area's content
    fuzzy,               \* BulkSearch.tsx: the fuzzy toggle
    isProcessing,        \* BulkSearch.tsx: a bulk search is under way
    hasSearched,         \* BulkSearch.tsx: a search has been performed
    inflight             \* the bulk requests posted and not yet answered

vars == <<phase, contributions, searchResultsCache, timers, now, nextId, resp,
          nin, nout, nout2, npc,
          nodeEnv, state, pageNames, fuzzy, isProcessing, hasSearched, inflight>>

pageVars == <<pageNames, fuzzy, isProcessing, hasSearched, inflight>>
clientVars == <<state, pageVars>>

serverVars == <<phase, contributions, searchResultsCache, timers, now, nextId, resp>>
normVars == <<nin, nout, nout2, npc>>

\* JavaScript's null / undefined (an absent name, query parameter or filter),
\* written as a sequence no string equals: NULL is not a character.
Null == <<"NULL">>

-----------------------------------------------------------------------------
(* Characters and the string primitives of JavaScript the code uses.       *)

\* /[a-z]/ : the ASCII lower-case letters the model uses.
LowerLetters == {"a", "b", "c", "k", "i", "n", "y", "o", "p", "r", "t", "z"}
\* /[A-Z]/ : their upper-case forms.
UpperLetters == {"A", "B", "C", "K", "I", "N", "Y", "O", "P", "R", "T", "Z"}
Digits == {"0", "1", "2", "3", "4", "5", "6", "7", "8", "9"}
\* /\s/ : the space, and TAB standing for every other white-space character.
WhiteSpace == {" ", "TAB"}

\* Characters outside ASCII: KELVIN is U+212A, whose lower case is the ASCII k;
\* DOTTED_I is U+0130, whose lower case is the two code units i, U+0307;
\* E_ACUTE is U+00E9 and CAP_E_ACUTE is U+00C9.
lowerOf(c) ==
    CASE c = "A" -> <<"a">> [] c = "B" -> <<"b">> [] c = "C" -> <<"c">>
      [] c = "K" -> <<"k">> [] c = "I" -> <<"i">> [] c = "N" -> <<"n">>
      [] c = "Y" -> <<"y">> [] c = "O" -> <<"o">> [] c = "P" -> <<"p">>
      [] c = "R" -> <<"r">> [] c = "T" -> <<"t">> [] c = "Z" -> <<"z">>
      [] c = "KELVIN" -> <<"k">>
      [] c = "DOTTED_I" -> <<"i", "COMBINING_DOT">>
      [] c = "CAP_E_ACUTE" -> <<"E_ACUTE">>
      [] OTHER -> <<c>>

upperOf(c) ==
    CASE c = "a" -> <<"A">> [] c = "b" -> <<"B">> [] c = "c" -> <<"C">>
      [] c = "k" -> <<"K">> [] c = "i" -> <<"I">> [] c = "n" -> <<"N">>
      [] c = "y" -> <<"Y">> [] c = "o" -> <<"O">> [] c = "p" -> <<"P">>
      [] c = "r" -> <<"R">> [] c = "t" -> <<"T">> [] c = "z" -> <<"Z">>
      [] c = "E_ACUTE" -> <<"CAP_E_ACUTE">>
      [] OTHER -> <<c>>

RECURSIVE FlatMap(_, _)
\* The concatenation of f[s[1]], f[s[2]], ... (f a function on characters).
FlatMap(f, s) == IF s = << >> THEN << >> ELSE f[Head(s)] \o FlatMap(f, Tail(s))

\* String.prototype.toLowerCase
toLowerCase(s) == FlatMap([c \in {s[i] : i \in DOMAIN s} |-> lowerOf(c)], s)

\* String.prototype.toUpperCase
toUpperCase(s) == FlatMap([c \in {s[i] : i \in DOMAIN s} |-> upperOf(c)], s)

\* .replace(/[^a-z0-9\s]/gi, ''): with the i flag and no u flag an ASCII letter
\* of either case is kept, and no character outside ASCII folds onto one.
KeptByStrip(c) == c \in LowerLetters \cup UpperLetters \cup Digits \cup WhiteSpace

stripSpecial(s) == SelectSeq(s, KeptByStrip)

RECURSIVE collapseWhitespace(_)
\* .replace(/\s+/g, ' '): every maximal run of white space becomes one space.
collapseWhitespace(s) ==
    IF s = << >> THEN << >>
    ELSE IF Head(s) \in WhiteSpace
         THEN IF Len(s) > 1 /\ s[2] \in WhiteSpace
              THEN collapseWhitespace(Tail(s))
              ELSE <<" ">> \o collapseWhitespace(Tail(s))
         ELSE <<Head(s)>> \o collapseWhitespace(Tail(s))

RECURSIVE trimStart(_)
trimStart(s) ==
    IF s # << >> /\ Head(s) \in WhiteSpace THEN trimStart(Tail(s)) ELSE s

RECURSIVE trimEnd(_)
trimEnd(s) ==
    IF s # << >> /\ s[Len(s)] \in WhiteSpace
    THEN trimEnd(SubSeq(s, 1, Len(s) - 1)) ELSE s

\* String.prototype.trim
trim(s) == trimEnd(trimStart(s))

\* A normaliser that collapses the white space before it strips the special
\* characters.
normalizeNameCollapseFirst(name) ==
    trim(stripSpecial(collapseWhitespace(toLowerCase(IF name = Null THEN << >> ELSE name))))

\* A normaliser that does not lower-case.
normalizeNameNoLower(name) ==
    trim(collapseWhitespace(stripSpecial(IF name = Null THEN << >> ELSE name)))

\* dataProcessor.js:26-28 (and the copy in export.js):
\*   (name || '').toLowerCase().replace(/[^a-z0-9\s]/gi, '').replace(/\s+/g, ' ').trim()
normalizeName(name) ==
    trim(collapseWhitespace(stripSpecial(toLowerCase(IF name = Null THEN << >> ELSE name))))

\* String.prototype.includes: sub occurs in s as a contiguous substring.
includes(s, sub) ==
    \E i \in 1..(Len(s) - Len(sub) + 1) : SubSeq(s, i, i + Len(sub) - 1) = sub

RECURSIVE splitFrom(_, _, _)
\* The pieces of s between occurrences of sep, cur being the piece under way.
splitFrom(s, sep, cur) ==
    IF s = << >> THEN <<cur>>
    ELSE IF Head(s) = sep THEN <<cur>> \o splitFrom(Tail(s), sep, << >>)
         ELSE splitFrom(Tail(s), sep, Append(cur, Head(s)))

\* String.prototype.split(' '): the empty string splits into one empty piece.
split(s, sep) == splitFrom(s, sep, << >>)

-----------------------------------------------------------------------------
(* Numbers and dates.                                                      *)

\* A JavaScript number: an integer, or NaN.  (The amounts of the model are
\* whole numbers: no amount string holds a fraction.)
Num(n) == [nan |-> FALSE, v |-> n]
NaN == [nan |-> TRUE, v |-> 0]

DigitValue(c) ==
    CASE c = "0" -> 0 [] c = "1" -> 1 [] c = "2" -> 2 [] c = "3" -> 3
      [] c = "4" -> 4 [] c = "5" -> 5 [] c = "6" -> 6 [] c = "7" -> 7
      [] c = "8" -> 8 [] c = "9" -> 9

DigitChar(n) ==
    CASE n = 0 -> "0" [] n = 1 -> "1" [] n = 2 -> "2" [] n = 3 -> "3"
      [] n = 4 -> "4" [] n = 5 -> "5" [] n = 6 -> "6" [] n = 7 -> "7"
      [] n = 8 -> "8" [] n = 9 -> "9"

RECURSIVE DigitPrefix(_)
\* The longest prefix of s made of digits.
DigitPrefix(s) ==
    IF s # << >> /\ Head(s) \in Digits
    THEN <<Head(s)>> \o DigitPrefix(Tail(s)) ELSE << >>

RECURSIVE DigitsValue(_)
DigitsValue(d) ==
    IF d = << >> THEN 0
    ELSE 10 * DigitsValue(SubSeq(d, 1, Len(d) - 1)) + DigitValue(d[Len(d)])

\* A number of a JSON request body (express.json(), server.js): the marker
\* JSON_NUMBER followed by the number's decimal digits.
JsonNumber(digits) == <<"JSON_NUMBER">> \o digits
IsJsonNumber(x) == x # << >> /\ Head(x) = "JSON_NUMBER"

\* String(x): a number is written in decimal, a string is itself.
StringOf(x) == IF IsJsonNumber(x) THEN Tail(x) ELSE x

\* parseFloat / parseInt on the values of the model: the argument is turned
\* into a string, leading white space is skipped, a sign is read, then the
\* longest run of digits; with no digit the result is NaN.
\* parseFloat(undefined) is NaN.
parseFloat(s) ==
    IF s = Null THEN NaN
    ELSE LET t == trimStart(StringOf(s))
             neg == t # << >> /\ Head(t) = "-"
             d == DigitPrefix(IF neg THEN Tail(t) ELSE t)
         IN  IF d = << >> THEN NaN
             ELSE Num(IF neg THEN 0 - DigitsValue(d) ELSE DigitsValue(d))

\* A value counts as true in `if (x)`: neither absent, nor the empty string,
\* nor the number 0.
Truthy(s) ==
    /\ s # Null
    /\ s # << >>
    /\ IsJsonNumber(s) => parseFloat(s).v # 0

\* x || dflt for a number x: NaN and 0 are falsy.
OrDefault(x, dflt) == IF x.nan \/ x.v = 0 THEN dflt ELSE x.v

\* The UTF-16 code unit of a character of a date string.
CodeUnit(c) == 48 + DigitValue(c)

RECURSIVE StrLeq(_, _)
\* s <= t for two strings: the comparison by code units, a proper prefix first.
StrLeq(s, t) ==
    IF s = << >> THEN TRUE
    ELSE IF t = << >> THEN FALSE
    ELSE IF CodeUnit(Head(s)) < CodeUnit(Head(t)) THEN TRUE
    ELSE IF CodeUnit(Head(s)) > CodeUnit(Head(t)) THEN FALSE
    ELSE StrLeq(Tail(s), Tail(t))

RECURSIVE Pad(_, _)
\* n written in decimal on exactly w digits.
Pad(n, w) == IF w = 0 THEN << >> ELSE Pad(n \div 10, w - 1) \o <<DigitChar(n % 10)>>

DaysInMonth(y, m) ==
    IF m \in {4, 6, 9, 11} THEN 30
    ELSE IF m = 2
         THEN (IF (y % 4 = 0 /\ y % 100 # 0) \/ y % 400 = 0 THEN 29 ELSE 28)
         ELSE 31

AllDigits(s) == \A i \in DOMAIN s : s[i] \in Digits

\* moment(s, 'YYYY-MM-DD') on the strings of the model: a string of the shape
\* dddd-dd-dd is read as year, month, day and is valid when they name a
\* calendar day; any other string of the model is not valid.
momentParse(s) ==
    IF /\ Len(s) = 10 /\ s[5] = "-" /\ s[8] = "-"
       /\ AllDigits(SubSeq(s, 1, 4)) /\ AllDigits(SubSeq(s, 6, 7))
       /\ AllDigits(SubSeq(s, 9, 10))
    THEN LET y == DigitsValue(SubSeq(s, 1, 4))
             m == DigitsValue(SubSeq(s, 6, 7))
             d == DigitsValue(SubSeq(s, 9, 10))
         IN  [valid |-> m \in 1..12 /\ d >= 1 /\ d <= DaysInMonth(y, m),
              y |-> y, m |-> m, d |-> d]
    ELSE [valid |-> FALSE, y |-> 0, m |-> 0, d |-> 0]

\* m.format('MMDDYYYY')
formatMMDDYYYY(m) == Pad(m.m, 2) \o Pad(m.d, 2) \o Pad(m.y, 4)

-----------------------------------------------------------------------------
(* The data files and parseLine.                                           *)

\* The lines of the data files, already split on '|': the columns the search
\* path reads.  sub_id is the FEC's unique row identifier.
RawLines == <<
    [sub_id |-> 1, cmte_id |-> <<"C", "1">>, employer |-> <<"k">>,
     name |-> <<"A", "b", " ", "C", "y">>,
     city |-> <<"N", "Y">>, state |-> <<"N", "Y">>,
     transaction_amt |-> <<"1", "0", "0">>,
     transaction_dt |-> <<"0", "1", "1", "5", "2", "0", "2", "0">>],
    [sub_id |-> 2, cmte_id |-> <<"C", "1">>, employer |-> <<"a", "\"", "b">>,
     name |-> <<"A", "B", ",", " ", "C", "Y">>,
     city |-> <<"n", "y", "c">>, state |-> <<"n", "y">>,
     transaction_amt |-> <<"5", "0">>,
     transaction_dt |-> <<"0", "2", "0", "1", "2", "0", "2", "0">>],
    [sub_id |-> 3, cmte_id |-> <<"C", "2">>, employer |-> << >>,
     name |-> <<"A", "b", " ", "C", "y">>,
     city |-> <<"T", "r", "o", "y">>, state |-> <<"N", "Y">>,
     transaction_amt |-> <<"7", "5">>,
     transaction_dt |-> <<"1", "2", "3", "1", "2", "0", "1", "9">>],
    [sub_id |-> 4, cmte_id |-> <<"C", "2">>, employer |-> <<"k", ",", "o">>,
     name |-> <<"C", "y", " ", "A", "b">>,
     city |-> <<"B", "a", "y">>, state |-> <<"C", "A">>,
     transaction_amt |-> << >>,
     transaction_dt |-> <<"0", "1", "0", "1", "2", "0", "2", "1">>],
    [sub_id |-> 5, cmte_id |-> <<"C", "1">>, employer |-> << >>,
     name |-> <<"A", "b", "b", "y">>,
     city |-> << >>, state |-> <<"C", "A">>,
     transaction_amt |-> <<"2", "0", "0">>,
     transaction_dt |-> <<"0", "1", "1", "5", "2", "0", "2", "0">>] >>

\* dataProcessor.js:35-46
parseLine(line) ==
    [sub_id |-> line.sub_id,
     cmte_id |-> line.cmte_id,
     employer |-> line.employer,
     transaction_amt |-> line.transaction_amt,
     name |-> line.name,
     city |-> line.city,
     state |-> line.state,
     name_normalized |-> normalizeName(line.name),
     amount |-> OrDefault(parseFloat(line.transaction_amt), 0),
     date |-> line.transaction_dt]

\* dataProcessor.js:57-67: every line of every file, in order.
loadContributions == [i \in DOMAIN RawLines |-> parseLine(RawLines[i])]

-----------------------------------------------------------------------------
(* The index stage: exact substring lookup, and the Fuse.js extended search. *)

\* Array.prototype.slice(0, n)
Take(s, n) == IF Len(s) <= n THEN s ELSE SubSeq(s, 1, n)

RECURSIVE Join(_, _)
\* Array.prototype.join(sep) of a sequence of strings.
Join(pieces, sep) ==
    IF pieces = << >> THEN << >>
    ELSE IF Len(pieces) = 1 THEN pieces[1]
    ELSE pieces[1] \o <<sep>> \o Join(Tail(pieces), sep)

\* An exact lookup that compares with the raw name instead of the normalised one.
exactSearchRawName(records, norm) ==
    SelectSeq(records, LAMBDA c : includes(c.name, norm))

\* search.js:49, bulkSearch.js:33
\*   contributions.filter(c => c.name_normalized.includes(norm))
exactSearch(records, norm) ==
    SelectSeq(records, LAMBDA c : includes(c.name_normalized, norm))

\* search.js:45, bulkSearch.js:30
\*   norm.split(' ').map(term => `'${term}`).join(' ')
searchTerms(norm) ==
    LET terms == split(norm, " ")
    IN  Join([i \in DOMAIN terms |-> <<"'">> \o terms[i]], " ")

\* One item of a Fuse extended-search query against a text: 'tok is the
\* include-match of tok; an item with no token after the quote is no operator
\* and is searched for as it is written.
fuseItemMatches(text, item) ==
    IF Len(item) > 1 /\ Head(item) = "'"
    THEN includes(text, Tail(item))
    ELSE includes(text, item)

\* A matcher under which one matching item is enough.
fuseMatchesAny(text, pattern) ==
    LET items == split(pattern, " ")
    IN  \E i \in DOMAIN items : fuseItemMatches(text, items[i])

\* Fuse extended search: the items separated by spaces are ANDed.  A record
\* with a blank name_normalized is not in the index.
fuseMatches(text, pattern) ==
    LET items == split(pattern, " ")
    IN  text # << >> /\ \A i \in DOMAIN items : fuseItemMatches(text, items[i])

\* The number of words of a text, Fuse's field-length norm being 1/sqrt of it.
WordCount(text) == Len(SelectSeq(split(text, " "), LAMBDA w : w # << >>))

RECURSIVE fuseRank(_, _)
\* The matches in Fuse's order: every include-match scores the same but for
\* the field-length norm, so fewer words first, then the index order.
fuseRank(matches, k) ==
    IF matches = << >> THEN << >>
    ELSE SelectSeq(matches, LAMBDA c : WordCount(c.name_normalized) = k)
         \o fuseRank(SelectSeq(matches, LAMBDA c : WordCount(c.name_normalized) # k), k + 1)

\* A search that ignores the limit option.
fuseSearchUnlimited(records, pattern, limit) ==
    fuseRank(SelectSeq(records, LAMBDA c : fuseMatches(c.name_normalized, pattern)), 0)

\* fuse.search(pattern, { limit }).map(r => r.item), the index built by
\* dataProcessor.js:72-78 over name_normalized with useExtendedSearch.
fuseSearch(records, pattern, limit) ==
    Take(fuseRank(SelectSeq(records, LAMBDA c : fuseMatches(c.name_normalized, pattern)), 0),
         limit)

\* search.js:46, bulkSearch.js:31: the limit given to fuse.search (1000 in the
\* code; the model's record set is small, and so is its limit).
FuzzyLimit == 3

-----------------------------------------------------------------------------
(* The filter pipeline (search.js:56-84, bulkSearch.js:35-63).              *)

\* search.js:57-60
byCity(list, f) ==
    IF Truthy(f.city)
    THEN LET cityNorm == toLowerCase(f.city)
         IN  SelectSeq(list, LAMBDA c : includes(toLowerCase(c.city), cityNorm))
    ELSE list

\* search.js:61-64
byState(list, f) ==
    IF Truthy(f.state)
    THEN LET stateNorm == toUpperCase(f.state)
         IN  SelectSeq(list, LAMBDA c : toUpperCase(c.state) = stateNorm)
    ELSE list

\* search.js:65-67: a comparison with NaN is false.
byMinAmount(list, f) ==
    IF Truthy(f.minAmount)
    THEN LET bound == parseFloat(f.minAmount)
         IN  SelectSeq(list, LAMBDA c : ~bound.nan /\ c.amount >= bound.v)
    ELSE list

\* search.js:68-70
byMaxAmount(list, f) ==
    IF Truthy(f.maxAmount)
    THEN LET bound == parseFloat(f.maxAmount)
         IN  SelectSeq(list, LAMBDA c : ~bound.nan /\ c.amount <= bound.v)
    ELSE list

\* A start date filter that drops the records dated at the bound.
byStartDateStrict(list, f) ==
    IF Truthy(f.startDate)
    THEN LET m == momentParse(f.startDate)
         IN  IF m.valid
             THEN LET minDate == formatMMDDYYYY(m)
                  IN  SelectSeq(list, LAMBDA c : ~StrLeq(c.date, minDate))
             ELSE list
    ELSE list

\* search.js:71-77
byStartDate(list, f) ==
    IF Truthy(f.startDate)
    THEN LET m == momentParse(f.startDate)
         IN  IF m.valid
             THEN LET minDate == formatMMDDYYYY(m)
                  IN  SelectSeq(list, LAMBDA c : StrLeq(minDate, c.date))
             ELSE list
    ELSE list

\* An end date filter that keeps no record when the date is not valid.
byEndDateInvalidEmpty(list, f) ==
    IF Truthy(f.endDate)
    THEN LET m == momentParse(f.endDate)
         IN  IF m.valid
             THEN LET maxDate == formatMMDDYYYY(m)
                  IN  SelectSeq(list, LAMBDA c : StrLeq(c.date, maxDate))
             ELSE << >>
    ELSE list

\* search.js:78-84
byEndDate(list, f) ==
    IF Truthy(f.endDate)
    THEN LET m == momentParse(f.endDate)
         IN  IF m.valid
             THEN LET maxDate == formatMMDDYYYY(m)
                  IN  SelectSeq(list, LAMBDA c : StrLeq(c.date, maxDate))
             ELSE list
    ELSE list

\* A pipeline that leaves the state filter out.
applyFiltersNoState(list, f) ==
    byEndDate(byStartDate(byMaxAmount(byMinAmount(byCity(list, f), f), f), f), f)

\* search.js:56-84, bulkSearch.js:35-63: the filters in the order of the code.
applyFilters(list, f) ==
    byEndDate(byStartDate(byMaxAmount(byMinAmount(byState(byCity(list, f), f), f), f), f), f)

-----------------------------------------------------------------------------
(* Aggregation helpers.                                                    *)

RECURSIVE SumAmount(_)
\* list.reduce((sum, c) => sum + (c.amount || 0), 0)
SumAmount(list) == IF list = << >> THEN 0 ELSE Head(list).amount + SumAmount(Tail(list))

RECURSIVE Distinct(_)
\* [...new Set(list)]: the distinct elements in the order of first occurrence.
Distinct(list) ==
    IF list = << >> THEN << >>
    ELSE LET front == Distinct(SubSeq(list, 1, Len(list) - 1))
             last == list[Len(list)]
         IN  IF \E i \in DOMAIN front : front[i] = last THEN front
             ELSE Append(front, last)

RECURSIVE Flatten(_)
\* The concatenation of a sequence of sequences (flatMap of the identity).
Flatten(lists) == IF lists = << >> THEN << >> ELSE Head(lists) \o Flatten(Tail(lists))

\* A grouping that keys the groups by the normalised name.
groupMatchesNormalized(matched) ==
    LET names == Distinct([i \in DOMAIN matched |-> matched[i].name_normalized])
    IN  [i \in DOMAIN names |->
            LET group == SelectSeq(matched, LAMBDA c : c.name_normalized = names[i])
            IN  [name |-> names[i], count |-> Len(group), totalAmount |-> SumAmount(group)]]

\* bulkSearch.js:67-74: one group per distinct literal name.
groupMatches(matched) ==
    LET names == Distinct([i \in DOMAIN matched |-> matched[i].name])
    IN  [i \in DOMAIN names |->
            LET group == SelectSeq(matched, LAMBDA c : c.name = names[i])
            IN  [name |-> names[i], count |-> Len(group), totalAmount |-> SumAmount(group)]]

-----------------------------------------------------------------------------
(* GET /api/search (search.js:34-104).                                      *)

\* search.js:87-90: a comes before b when its date string is greater, or the
\* dates are equal and its amount is greater.
SortsBefore(a, b) ==
    \/ a.date # b.date /\ ~StrLeq(a.date, b.date)
    \/ a.date = b.date /\ a.amount > b.amount

RECURSIVE InsertSorted(_, _)
InsertSorted(sorted, c) ==
    IF sorted = << >> THEN <<c>>
    ELSE IF SortsBefore(c, Head(sorted)) THEN <<c>> \o sorted
    ELSE <<Head(sorted)>> \o InsertSorted(Tail(sorted), c)

RECURSIVE sortByDateAmount(_)
\* Array.prototype.sort with that comparator: a stable sort.
sortByDateAmount(list) ==
    IF list = << >> THEN << >>
    ELSE InsertSorted(sortByDateAmount(SubSeq(list, 1, Len(list) - 1)), list[Len(list)])

Max(a, b) == IF a >= b THEN a ELSE b
Min(a, b) == IF a <= b THEN a ELSE b

\* search.js:43: query.fuzzy === '1' || query.fuzzy === 'true'
queryFuzzy(query) == query.fuzzy = <<"1">> \/ query.fuzzy = <<"t", "r", "u", "e">>

\* search.js:41-54: the candidate records of a single search.
searchCandidates(records, query) ==
    IF Truthy(query.name)
    THEN LET norm == normalizeName(query.name)
         IN  IF queryFuzzy(query)
             THEN fuseSearch(records, searchTerms(norm), FuzzyLimit)
             ELSE exactSearch(records, norm)
    ELSE records

\* A slice that takes the element at its end index too.
sliceInclusive(list, start, end) == SubSeq(list, start + 1, Min(Len(list), end + 1))

\* search.js:93: Array.prototype.slice(start, end) for 0 <= start <= end: the
\* elements at the indices start .. end - 1, counted from 0.
slice(list, start, end) == SubSeq(list, start + 1, Min(Len(list), end))

\* search.js:34-99: the response to GET /api/search; candidates and filtered
\* are the handler's local `filtered` after line 54 and after line 90.
searchResponse(records, query) ==
    LET limit == Max(1, Min(OrDefault(parseFloat(query.limit), 50), 1000))
        offset == Max(0, OrDefault(parseFloat(query.offset), 0))
        candidates == searchCandidates(records, query)
        filtered == sortByDateAmount(applyFilters(candidates, query))
    IN  [kind |-> "search", status |-> 200, req |-> query,
         contributions |-> slice(filtered, offset, offset + limit),
         total |-> Len(filtered), limit |-> limit, offset |-> offset,
         candidates |-> candidates, filtered |-> filtered]

-----------------------------------------------------------------------------
(* POST /api/bulk-search (bulkSearch.js:10-105).                            *)

\* bulkSearch.js:13-18: the cap on names.length (1000 in the code; the model's
\* requests are short, and so is its cap).
NamesCap == 2

\* The property name that is an accessor of Object.prototype.
ProtoKey == <<"_", "_", "p", "r", "o", "t", "o", "_", "_">>

\* bulkSearch.js:24: !!filters.fuzzy, for a JSON value.
bulkFuzzy(filters) == Truthy(filters.fuzzy) /\ filters.fuzzy # <<"JSON_FALSE">>

\* bulkSearch.js:20
cleanNamesOf(names) ==
    Take(SelectSeq([i \in DOMAIN names |-> trim(names[i])], LAMBDA n : Len(n) > 0), NamesCap)

\* bulkSearch.js:27-34: the candidate records of one input name.
bulkCandidates(records, inputName, filters) ==
    LET norm == normalizeName(inputName)
    IN  IF bulkFuzzy(filters)
        THEN fuseSearch(records, searchTerms(norm), FuzzyLimit)
        ELSE exactSearch(records, norm)

\* bulkSearch.js:26-81: one pass of the forEach; candidates is the local
\* matchedContributions after line 34.
bulkIteration(records, inputName, filters) ==
    LET candidates == bulkCandidates(records, inputName, filters)
        matchedContributions == applyFilters(candidates, filters)
        matches == groupMatches(matchedContributions)
    IN  [inputName |-> inputName,
         candidates |-> candidates,
         entry |-> [matchedNames |-> [i \in DOMAIN matches |-> matches[i].name],
                    count |-> Len(matchedContributions),
                    totalAmount |-> SumAmount(matchedContributions),
                    contributions |-> matchedContributions,
                    matches |-> matches]]

\* bulkSearch.js:75: results[inputName] = {...} on a plain object, the object
\* being the sequence of its own properties in insertion order.  A key already
\* there keeps its place and takes the new value; __proto__ is the prototype
\* accessor, and assigning an object to it creates no own property.
setProperty(obj, key, value) ==
    IF key = ProtoKey THEN obj
    ELSE IF \E i \in DOMAIN obj : obj[i].key = key
         THEN [i \in DOMAIN obj |->
                  IF obj[i].key = key THEN [key |-> key, value |-> value] ELSE obj[i]]
         ELSE Append(obj, [key |-> key, value |-> value])

RECURSIVE buildResults(_)
\* bulkSearch.js:25-82: the results object after the forEach.
buildResults(iterations) ==
    IF iterations = << >> THEN << >>
    ELSE LET last == iterations[Len(iterations)]
         IN  setProperty(buildResults(SubSeq(iterations, 1, Len(iterations) - 1)),
                         last.inputName, last.entry)

\* Object.values(results)
objectValues(obj) == [i \in DOMAIN obj |-> obj[i].value]

RECURSIVE SumField(_, _)
\* values.reduce((sum, r) => sum + r[field], 0)
SumField(values, field) ==
    IF values = << >> THEN 0 ELSE Head(values)[field] + SumField(Tail(values), field)

\* A summary that counts every pass of the loop, also one whose entry was
\* overwritten.
bulkSummaryOverIterations(cleanNames, iterations, results) ==
    LET values == [i \in DOMAIN iterations |-> iterations[i].entry]
    IN  [totalNames |-> Len(cleanNames),
         namesWithResults |-> Len(SelectSeq(values, LAMBDA r : r.count > 0)),
         totalContributions |-> SumField(values, "count"),
         totalAmount |-> SumField(values, "totalAmount")]

\* bulkSearch.js:94-99
bulkSummary(cleanNames, iterations, results) ==
    LET values == objectValues(results)
    IN  [totalNames |-> Len(cleanNames),
         namesWithResults |-> Len(SelectSeq(values, LAMBDA r : r.count > 0)),
         totalContributions |-> SumField(values, "count"),
         totalAmount |-> SumField(values, "totalAmount")]

\* bulkSearch.js:85
allContributionsOf(results) ==
    Flatten([i \in DOMAIN results |-> results[i].value.contributions])

\* bulkSearch.js:20: name.trim() throws a TypeError for a name that is not a
\* string.
trimThrows(names) == \E i \in DOMAIN names : IsJsonNumber(names[i])

\* bulkSearch.js:12-23: the request is refused with status 400.
bulkRejected(body) ==
    \/ ~body.namesIsArray
    \/ Len(body.names) = 0
    \/ Len(body.names) > NamesCap
    \/ ~trimThrows(body.names) /\ Len(cleanNamesOf(body.names)) = 0

\* A handler in which nothing throws.
bulkNeverFails(body) == FALSE

\* bulkSearch.js:20, 36-43, 101-104: the handler throws before it reaches the
\* cache, and the catch answers 500: a name that is not a string has no trim,
\* a city that is not a string has no toLowerCase, a state that is not a
\* string has no toUpperCase.
bulkFails(body) ==
    /\ ~bulkRejected(body)
    /\ \/ trimThrows(body.names)
       \/ Truthy(body.filters.city) /\ IsJsonNumber(body.filters.city)
       \/ Truthy(body.filters.state) /\ IsJsonNumber(body.filters.state)

RECURSIVE StringsUpTo(_, _)
\* Every sequence of at most n elements of alphabet.
StringsUpTo(alphabet, n) ==
    IF n = 0 THEN {<< >>}
    ELSE LET shorter == StringsUpTo(alphabet, n - 1)
         IN  shorter \cup {Append(s, c) : s \in shorter, c \in alphabet}

-----------------------------------------------------------------------------
(* The result cache (the Map of server.js:26) as a set of entries.          *)

\* An identifier generator that returns the same identifier every time.
uuidv4Constant(n) == 1

\* bulkSearch.js:84: uuidv4(), a random 128-bit identifier: the n + 1st
\* identifier differs from the n identifiers before it.
uuidv4(n) == n + 1

\* Map.prototype.set
cacheSet(cache, id, records) ==
    {e \in cache : e.id # id} \cup {[id |-> id, records |-> records]}

\* Map.prototype.has
cacheHas(cache, id) == \E e \in cache : e.id = id

\* Map.prototype.get, for an id the map holds
cacheGet(cache, id) == (CHOOSE e \in cache : e.id = id).records

\* Map.prototype.delete
cacheDelete(cache, id) == {e \in cache : e.id # id}

-----------------------------------------------------------------------------
(* The timers of setTimeout, as a set of pending callbacks.                 *)

\* bulkSearch.js:91: the delay 10 * 60 * 1000 ms, in ticks of the clock.
TTL == 2

\* The clock stops at MaxTime.
MaxTime == 4

\* setTimeout(callback, delay) called at time clock.
setTimeout(ts, id, delay, clock) == ts \cup {[id |-> id, due |-> clock + delay]}

timerPending(ts, id) == \E t \in ts : t.id = id

timerDue(ts, id) == (CHOOSE t \in ts : t.id = id).due

\* The callback has run: the timer is no longer pending.
clearTimer(ts, id) == {t \in ts : t.id # id}

-----------------------------------------------------------------------------
(* GET /api/export/:searchId and GET /api/export (part_000:109-225).        *)

\* The characters of CSV.
Comma == ","
DoubleQuote == "\""
LineFeed == "LF"

\* value.replace(/"/g, '""')
doubleQuotes(value) ==
    FlatMap([c \in {value[i] : i \in DOMAIN value} |->
                IF c = DoubleQuote THEN <<DoubleQuote, DoubleQuote>> ELSE <<c>>], value)

\* '"' + value.replace(/"/g, '""') + '"'
quoted(value) == <<DoubleQuote>> \o doubleQuotes(value) \o <<DoubleQuote>>

\* part_000:116-121: CSV_HEADER, for the columns the records of the model
\* carry: the name of the record's field and the column's title.
CSV_HEADER == <<
    [field |-> "cmte_id", title |-> <<"c", "m", "t", "e", "_", "i", "d">>],
    [field |-> "name", title |-> <<"n", "a", "m", "e">>],
    [field |-> "city", title |-> <<"c", "i", "t", "y">>],
    [field |-> "state", title |-> <<"s", "t", "a", "t", "e">>],
    [field |-> "employer", title |-> <<"e", "m", "p", "l", "o", "y", "e", "r">>],
    [field |-> "transaction_amt",
     title |-> <<"t", "r", "a", "n", "s", "a", "c", "t", "i", "o", "n", "_", "a", "m", "t">>] >>

\* part_000:126-133: one value of a row; every field of a record that
\* CSV_HEADER names is a string, and '' || '' is ''.
csvValue(row, header) ==
    LET value == row[header.field]
    IN  IF includes(value, <<Comma>>) \/ includes(value, <<DoubleQuote>>)
        THEN quoted(value)
        ELSE value

\* part_000:123-137
contributionsToCsv(records) ==
    LET csvRows == <<Join([i \in DOMAIN CSV_HEADER |-> CSV_HEADER[i].title], Comma)>>
                   \o [r \in DOMAIN records |->
                          Join([i \in DOMAIN CSV_HEADER |-> csvValue(records[r], CSV_HEADER[i])],
                               Comma)]
    IN  Join(csvRows, LineFeed)

RECURSIVE numberToString(_)
\* String(n) for a whole number n >= 0, as Array.prototype.join writes it.
numberToString(n) ==
    IF n < 10 THEN <<DigitChar(n)>> ELSE numberToString(n \div 10) \o <<DigitChar(n % 10)>>

\* part_000:198: the header line of GET /api/export, for the columns the
\* records of the model carry.
exportHeaderLine ==
    Join(<< <<"c", "o", "m", "m", "i", "t", "t", "e", "e", "_", "i", "d">>,
            <<"n", "a", "m", "e">>, <<"c", "i", "t", "y">>, <<"s", "t", "a", "t", "e">>,
            <<"e", "m", "p", "l", "o", "y", "e", "r">>, <<"d", "a", "t", "e">>,
            <<"a", "m", "o", "u", "n", "t">> >>, Comma) \o <<LineFeed>>

\* part_000:200-212: one line of GET /api/export.  The records have no field
\* committee_id, and join writes undefined as the empty string.
exportLine(row) ==
    Join(<< << >>, quoted(row.name), quoted(row.city), row.state, quoted(row.employer),
            row.date, numberToString(row.amount) >>, Comma) \o <<LineFeed>>

\* part_000:196-214: what GET /api/export writes.
exportSearchCsv(records) ==
    exportHeaderLine \o Flatten([r \in DOMAIN records |-> exportLine(records[r])])

\* An export that answers an unknown searchId with an empty file.
exportBulkResponseAlwaysFound(cache, searchId) ==
    [kind |-> "exportBulk", status |-> 200, searchId |-> searchId,
     records |-> IF cacheHas(cache, searchId) THEN cacheGet(cache, searchId) ELSE << >>,
     csv |-> contributionsToCsv(IF cacheHas(cache, searchId)
                                THEN cacheGet(cache, searchId) ELSE << >>)]

\* An export that takes an empty record list for a missing one.
exportBulkResponseEmptyIsMiss(cache, searchId) ==
    IF ~cacheHas(cache, searchId) \/ cacheGet(cache, searchId) = << >>
    THEN [kind |-> "exportBulk", status |-> 404, searchId |-> searchId]
    ELSE [kind |-> "exportBulk", status |-> 200, searchId |-> searchId,
          records |-> cacheGet(cache, searchId),
          csv |-> contributionsToCsv(cacheGet(cache, searchId))]

\* part_000:143-160: Map.get gives undefined for an id the map does not hold,
\* and `!cachedResults` is true of undefined only: an array, also an empty
\* one, is truthy.  records is the list handed to contributionsToCsv, csv the
\* body that is sent.
exportBulkResponse(cache, searchId) ==
    IF ~cacheHas(cache, searchId)
    THEN [kind |-> "exportBulk", status |-> 404, searchId |-> searchId]
    ELSE [kind |-> "exportBulk", status |-> 200, searchId |-> searchId,
          records |-> cacheGet(cache, searchId),
          csv |-> contributionsToCsv(cacheGet(cache, searchId))]

\* part_000:162-196: the rows of GET /api/export: the exact lookup when a
\* name is given, then the filters; no sort, no page.
exportSearchResponse(records, query) ==
    LET candidates == IF Truthy(query.name)
                      THEN exactSearch(records, normalizeName(query.name))
                      ELSE records
        filtered == applyFilters(candidates, query)
    IN  [kind |-> "exportSearch", status |-> 200, req |-> query,
         records |-> filtered, csv |-> exportSearchCsv(filtered)]

-----------------------------------------------------------------------------
(* GET /api/analytics (part_001).                                           *)

\* part_001:78: slice(0, 10); the model's record set is short, and so is its
\* top list.
TopCount == 3

RECURSIVE InsertByAmount(_, _)
InsertByAmount(sorted, c) ==
    IF sorted = << >> THEN <<c>>
    ELSE IF c.amount > Head(sorted).amount THEN <<c>> \o sorted
    ELSE <<Head(sorted)>> \o InsertByAmount(Tail(sorted), c)

RECURSIVE sortByAmountDesc(_)
\* part_001:77: sort((a, b) => b.amount - a.amount), a stable sort.
sortByAmountDesc(list) ==
    IF list = << >> THEN << >>
    ELSE InsertByAmount(sortByAmountDesc(SubSeq(list, 1, Len(list) - 1)), list[Len(list)])

\* part_001:17: new Set(contributions.map(c => c.name)).size
uniqueContributors(records) == Cardinality({records[i].name : i \in DOMAIN records})

RECURSIVE contributorStats(_)
\* part_001:57-64: the own properties of contributorStats after the forEach,
\* in insertion order.  For the name __proto__ the object's prototype is read,
\* which is truthy, so no property is created and the sums go to the
\* prototype.
contributorStats(records) ==
    IF records = << >> THEN << >>
    ELSE LET stats == contributorStats(SubSeq(records, 1, Len(records) - 1))
             c == records[Len(records)]
         IN  IF c.name = ProtoKey THEN stats
             ELSE IF \E i \in DOMAIN stats : stats[i].key = c.name
                  THEN [i \in DOMAIN stats |->
                           IF stats[i].key = c.name
                           THEN [key |-> c.name,
                                 value |-> [totalAmount |-> stats[i].value.totalAmount + c.amount,
                                            count |-> stats[i].value.count + 1]]
                           ELSE stats[i]]
                  ELSE Append(stats, [key |-> c.name,
                                      value |-> [totalAmount |-> c.amount, count |-> 1]])

\* part_001:66-73: the buckets; avg = totalAmount / count with count > 0, so
\* avg > 5000 is totalAmount > 5000 * count.
riskAnalysis(records) ==
    LET values == objectValues(contributorStats(records))
        high(v) == v.totalAmount > 5000 * v.count
        medium(v) == ~high(v) /\ v.totalAmount > 1000 * v.count
    IN  [highRisk |-> Len(SelectSeq(values, high)),
         mediumRisk |-> Len(SelectSeq(values, medium)),
         lowRisk |-> Len(SelectSeq(values, LAMBDA v : ~high(v) /\ ~medium(v)))]

\* part_001:15-18, 56-91: the totals, the buckets and the top list of the
\* response.
analyticsResponse(records) ==
    [kind |-> "analytics", status |-> 200,
     totalContributions |-> Len(records),
     totalAmount |-> SumAmount(records),
     activeContributors |-> uniqueContributors(records),
     riskAnalysis |-> riskAnalysis(records),
     topContributions |-> Take(sortByAmountDesc(records), TopCount)]

\* An analytics handler that sorts the shared array itself.
analyticsLeavesSorted(records) == sortByAmountDesc(records)

\* part_001:76-77: the sort runs on the copy [...contributions]; the handler
\* leaves the shared array as it found it.
analyticsLeaves(records) == records

\* search.js:41-54, 87-90: `filtered` is a new array in every branch (the
\* result of Fuse, of filter, or the copy [...contributions]), and the sort
\* runs on it; the handler leaves the shared array as it found it.
searchLeaves(records, query) == records

-----------------------------------------------------------------------------
(* The application's stack of layers and the dispatch of a request.        *)

Production == <<"p", "r", "o", "d", "u", "c", "t", "i", "o", "n">>
Development == <<"d", "e", "v", "e", "l", "o", "p", "m", "e", "n", "t">>

\* server.js:48-95: the layers that can answer a request, in the order of
\* their registration.  helmet, compression, cors and the body parsers pass
\* every request on, and the error handler (75-81) is skipped while no layer
\* has failed.  The last two layers are registered in production only.
stack(env) ==
    <<"health", "search", "bulkSearch", "export", "analytics", "notFound">>
        \o (IF env = Production THEN <<"static", "index">> ELSE << >>)

\* The path of the request below the mount point, or Null when the request
\* is not below it.
below(path, mount) ==
    IF Len(path) >= Len(mount) /\ SubSeq(path, 1, Len(mount)) = mount
    THEN SubSeq(path, Len(mount) + 1, Len(path))
    ELSE Null

\* Whether the layer answers the request; a layer that does not passes it on.
\* files are the paths of the files in frontend/build.
answers(layer, request, files) ==
    LET get == request.method = "GET"
        at(mount, rest) == below(request.path, mount) = rest
    IN  CASE layer = "health" -> get /\ request.path = <<"api", "health">>
          [] layer = "search" ->
                 get /\ (at(<<"api", "search">>, << >>)
                          \/ at(<<"api", "search">>, <<"stats">>))
          [] layer = "bulkSearch" ->
                 request.method = "POST" /\ at(<<"api", "bulk-search">>, << >>)
          [] layer = "export" ->
                 get /\ LET rest == below(request.path, <<"api", "export">>)
                         IN  rest # Null /\ Len(rest) <= 1
          [] layer = "analytics" -> get /\ at(<<"api", "analytics">>, << >>)
          [] layer = "notFound" -> TRUE
          [] layer = "static" -> get /\ request.path \in files
          [] layer = "index" -> get

\* The first layer of the stack that answers the request; every request of a
\* stack with the notFound layer has one.
handle(env, request, files) ==
    LET layers == stack(env)
        first == CHOOSE i \in DOMAIN layers :
                     /\ answers(layers[i], request, files)
                     /\ \A j \in 1..(i - 1) : ~answers(layers[j], request, files)
    IN  layers[first]

\* The status with which the layer answers when it finds what it serves.
routedResponse(env, request, files) ==
    LET layer == handle(env, request, files)
    IN  [kind |-> "routed", req |-> request, files |-> files, layer |-> layer,
         status |-> IF layer = "notFound" THEN 404 ELSE 200,
         error |-> IF layer = "notFound"
                   THEN <<"Endpoint not found">> ELSE Null]

-----------------------------------------------------------------------------
(* The frontend: the reducer of the search context and the bulk page.      *)

\* SearchContext.tsx:84-91
initialState ==
    [individualResults |-> Null, bulkResults |-> Null, analytics |-> Null,
     loading |-> FALSE, error |-> Null, searchId |-> Null]

\* A reducer whose SET_BULK_RESULTS keeps the individual results.
searchReducerKeepsIndividual(st, action) ==
    CASE action.type = "SET_INDIVIDUAL_RESULTS" ->
             [st EXCEPT !.individualResults = action.payload, !.bulkResults = Null,
                        !.searchId = Null, !.loading = FALSE, !.error = Null]
      [] action.type = "SET_BULK_RESULTS" ->
             [st EXCEPT !.bulkResults = action.payload.results,
                        !.searchId = action.payload.searchId,
                        !.loading = FALSE, !.error = Null]
      [] action.type = "SET_ANALYTICS" -> [st EXCEPT !.analytics = action.payload]
      [] action.type = "SET_LOADING" ->
             [st EXCEPT !.loading = action.payload, !.error = Null]
      [] action.type = "SET_ERROR" ->
             [st EXCEPT !.error = action.payload, !.loading = FALSE]
      [] action.type = "CLEAR_RESULTS" -> initialState
      [] OTHER -> st

\* SearchContext.tsx:94-139
searchReducer(st, action) ==
    CASE action.type = "SET_INDIVIDUAL_RESULTS" ->
             [st EXCEPT !.individualResults = action.payload, !.bulkResults = Null,
                        !.searchId = Null, !.loading = FALSE, !.error = Null]
      [] action.type = "SET_BULK_RESULTS" ->
             [st EXCEPT !.bulkResults = action.payload.results,
                        !.searchId = action.payload.searchId,
                        !.individualResults = Null,
                        !.loading = FALSE, !.error = Null]
      [] action.type = "SET_ANALYTICS" -> [st EXCEPT !.analytics = action.payload]
      [] action.type = "SET_LOADING" ->
             [st EXCEPT !.loading = action.payload, !.error = Null]
      [] action.type = "SET_ERROR" ->
             [st EXCEPT !.error = action.payload, !.loading = FALSE]
      [] action.type = "CLEAR_RESULTS" -> initialState
      [] OTHER -> st

\* BulkSearch.tsx, handleSubmit: names.split('\n').map(trim).filter(length > 0)
nameListOf(text) ==
    SelectSeq([i \in DOMAIN split(text, LineFeed) |-> trim(split(text, LineFeed)[i])],
              LAMBDA n : Len(n) > 0)

\* BulkSearch.tsx, handleSubmit: the body of the POST.  The page's city and
\* state inputs add their filters in the same way as the fuzzy toggle.
bulkRequestOf(text, fz) == [names |-> nameListOf(text), fuzzy |-> fz]

\* The state of the page and of the context when the page is mounted for the
\* first time.
ClientInit ==
    /\ state = initialState
    /\ pageNames = << >>
    /\ fuzzy = FALSE
    /\ isProcessing = FALSE
    /\ hasSearched = FALSE
    /\ inflight = << >>

-----------------------------------------------------------------------------
(* The server: start-up and the request handlers.                          *)

Init ==
    /\ phase = "loading"
    /\ contributions = << >>
    /\ searchResultsCache = {}
    /\ timers = {}
    /\ now = 0
    /\ nextId = 0
    /\ resp = [kind |-> "none"]
    /\ nin = Null
    /\ nout = Null
    /\ nout2 = Null
    /\ npc = 0
    /\ nodeEnv = Null
    /\ ClientInit

\* dataProcessor.js:62-65: the next line of the data files is parsed and
\* pushed onto the array loadDataAndCreateIndex is building.
LoadLine ==
    /\ phase = "loading"
    /\ Len(contributions) < Len(RawLines)
    /\ contributions' = Append(contributions, parseLine(RawLines[Len(contributions) + 1]))
    /\ UNCHANGED <<phase, searchResultsCache, timers, now, nextId, resp, normVars, nodeEnv, clientVars>>

\* server.js:58-103: loadDataAndCreateIndex resolves, the routers are mounted
\* on the loaded records and the server listens.
LoadData ==
    /\ phase = "loading"
    /\ contributions = loadContributions
    /\ phase' = "listening"
    /\ UNCHANGED <<contributions, searchResultsCache, timers, now, nextId, resp, normVars, nodeEnv, clientVars>>

\* server.js:105-108: loading fails and the process exits.
LoadFails ==
    /\ phase = "loading"
    /\ phase' = "exited"
    /\ UNCHANGED <<contributions, searchResultsCache, timers, now, nextId, resp, normVars, nodeEnv, clientVars>>

\* A server that accepts connections from the moment the process starts.
servingFromStart(ph) == ph \in {"loading", "listening"}

\* server.js:59-100: the routers are created and app.listen is called inside
\* the then() of loadDataAndCreateIndex: a request is served only then.
serving(ph) == ph = "listening"

\* search.js:34-104: GET /api/search.
Search(query) ==
    /\ serving(phase)
    /\ resp' = searchResponse(contributions, query)
    /\ contributions' = searchLeaves(contributions, query)
    /\ UNCHANGED <<phase, searchResultsCache, timers, now, nextId, normVars, nodeEnv, clientVars>>

\* bulkSearch.js:10-105: POST /api/bulk-search.
BulkSearch(body) ==
    /\ serving(phase)
    /\ IF bulkRejected(body)
       THEN /\ resp' = [kind |-> "bulk", status |-> 400, req |-> body]
            /\ UNCHANGED <<searchResultsCache, timers, nextId>>
       ELSE IF bulkFails(body)
       THEN /\ resp' = [kind |-> "bulk", status |-> 500, req |-> body]
            /\ UNCHANGED <<searchResultsCache, timers, nextId>>
       ELSE LET cleanNames == cleanNamesOf(body.names)
                iterations == [i \in DOMAIN cleanNames |->
                                  bulkIteration(contributions, cleanNames[i], body.filters)]
                results == buildResults(iterations)
                searchId == uuidv4(nextId)
            IN  /\ nextId' = searchId
                /\ searchResultsCache' =
                       cacheSet(searchResultsCache, searchId, allContributionsOf(results))
                /\ timers' = setTimeout(timers, searchId, TTL, now)
                /\ resp' = [kind |-> "bulk", status |-> 200, req |-> body,
                            cleanNames |-> cleanNames, iterations |-> iterations,
                            results |-> results,
                            summary |-> bulkSummary(cleanNames, iterations, results),
                            searchId |-> searchId]
    /\ UNCHANGED <<phase, contributions, now, normVars, nodeEnv, clientVars>>

\* export.js:36-53 (part_000:143-160): GET /api/export/:searchId.
ExportBulk(searchId) ==
    /\ serving(phase)
    /\ resp' = exportBulkResponse(searchResultsCache, searchId)
    /\ UNCHANGED <<phase, contributions, searchResultsCache, timers, now, nextId, normVars, nodeEnv, clientVars>>

\* export.js:55-115 (part_000:162-222): GET /api/export.
ExportSearch(query) ==
    /\ serving(phase)
    /\ resp' = exportSearchResponse(contributions, query)
    /\ UNCHANGED <<phase, contributions, searchResultsCache, timers, now, nextId, normVars, nodeEnv, clientVars>>

\* analytics.js:12-96 (part_001): GET /api/analytics.
Analytics ==
    /\ serving(phase)
    /\ resp' = analyticsResponse(contributions)
    /\ contributions' = analyticsLeaves(contributions)
    /\ UNCHANGED <<phase, searchResultsCache, timers, now, nextId, normVars, nodeEnv, clientVars>>

\* Time passes.  Only the timers read the clock, so it is left to run while
\* a timer is pending.
Tick ==
    /\ timers # {}
    /\ now < MaxTime
    /\ now' = now + 1
    /\ UNCHANGED <<phase, contributions, searchResultsCache, timers, nextId, resp, normVars, nodeEnv, clientVars>>

\* bulkSearch.js:89-91: the callback of a timer that is due runs; Node runs it
\* no earlier than its delay, and after whatever the event loop runs first.
TimerFires(id) ==
    /\ timerPending(timers, id)
    /\ timerDue(timers, id) <= now
    /\ searchResultsCache' = cacheDelete(searchResultsCache, id)
    /\ timers' = clearTimer(timers, id)
    /\ UNCHANGED <<phase, contributions, now, nextId, resp, normVars, nodeEnv, clientVars>>

-----------------------------------------------------------------------------
(* The requests of the model.                                              *)

NameInputs == {
    <<"a", "b", " ", "c", "y">>,
    <<" ", "C", "y", " ", " ", "A", "B", " ">>,
    <<"b">>,
    <<"z", "z">>,
    <<".">>,
    <<" ", " ">>,
    ProtoKey }

NoFilter ==
    [city |-> Null, state |-> Null, minAmount |-> Null, maxAmount |-> Null,
     startDate |-> Null, endDate |-> Null]

Date_2020_01_15 == <<"2", "0", "2", "0", "-", "0", "1", "-", "1", "5">>
Date_2020_02_01 == <<"2", "0", "2", "0", "-", "0", "2", "-", "0", "1">>
Date_2020_01_01 == <<"2", "0", "2", "0", "-", "0", "1", "-", "0", "1">>
Date_2020_12_31 == <<"2", "0", "2", "0", "-", "1", "2", "-", "3", "1">>
Date_2020_13_45 == <<"2", "0", "2", "0", "-", "1", "3", "-", "4", "5">>

FilterInputs == {
    NoFilter,
    [NoFilter EXCEPT !.city = <<"n", "y">>],
    [NoFilter EXCEPT !.state = <<"n", "y">>],
    [NoFilter EXCEPT !.minAmount = <<"7", "5">>],
    [NoFilter EXCEPT !.maxAmount = <<"7", "5">>],
    [NoFilter EXCEPT !.minAmount = <<"a", "b", "c">>],
    [NoFilter EXCEPT !.startDate = Date_2020_01_15],
    [NoFilter EXCEPT !.endDate = Date_2020_02_01],
    [NoFilter EXCEPT !.startDate = Date_2020_13_45],
    [NoFilter EXCEPT !.startDate = Date_2020_01_15, !.endDate = <<"a", "b", "c">>],
    [NoFilter EXCEPT !.state = <<"N", "Y">>, !.city = <<"Y">>, !.minAmount = <<"7", "5">>],
    [NoFilter EXCEPT !.maxAmount = <<"1", "0", "0">>, !.startDate = Date_2020_01_01,
                     !.endDate = Date_2020_12_31] }

\* The filters of a bulk search arrive in a JSON body, where an amount bound
\* may be a number as well as a string.
BulkFilterInputs ==
    FilterInputs \cup {[NoFilter EXCEPT !.maxAmount = JsonNumber(<<"0">>)]}

\* A request with all six filters.
AllFilters ==
    [city |-> <<"y">>, state |-> <<"n", "y">>, minAmount |-> <<"5", "0">>,
     maxAmount |-> <<"1", "0", "0">>, startDate |-> Date_2020_01_01,
     endDate |-> Date_2020_12_31]

\* The values of the fuzzy flag: absent, and as the two routes may receive it.
SearchFuzzyInputs == {Null, <<"1">>, <<"t", "r", "u", "e">>, <<"0">>}
BulkFuzzyInputs == {Null, <<"JSON_TRUE">>, <<"JSON_FALSE">>}

\* limit and offset as query strings.
PageInputs == {
    [limit |-> Null, offset |-> Null],
    [limit |-> <<"2">>, offset |-> <<"2">>],
    [limit |-> <<"0">>, offset |-> <<"-", "1">>] }

SearchQueries ==
    {[name |-> n, fuzzy |-> z, limit |-> p.limit, offset |-> p.offset,
      city |-> f.city, state |-> f.state, minAmount |-> f.minAmount,
      maxAmount |-> f.maxAmount, startDate |-> f.startDate, endDate |-> f.endDate] :
        n \in NameInputs \cup {Null}, z \in SearchFuzzyInputs, p \in PageInputs,
        f \in FilterInputs \cup {AllFilters}}

\* The names arrays: every list of at most NamesCap names, and one list that
\* is too long.
NameLists ==
    StringsUpTo(NameInputs, NamesCap) \cup {[i \in 1..(NamesCap + 1) |-> <<"b">>]}

\* The request bodies; namesIsArray is false for a body whose names is absent
\* or is not an array.
BulkBodies ==
    {[namesIsArray |-> FALSE, names |-> << >>, filters |-> NoFilter @@ [fuzzy |-> Null]]}
    \cup
    {[namesIsArray |-> TRUE, names |-> ns,
      filters |-> [fuzzy |-> z, city |-> f.city, state |-> f.state,
                   minAmount |-> f.minAmount, maxAmount |-> f.maxAmount,
                   startDate |-> f.startDate, endDate |-> f.endDate]] :
        ns \in NameLists, z \in BulkFuzzyInputs, f \in BulkFilterInputs}

-----------------------------------------------------------------------------
(* SpecQuery: the server starts and serves its first request, any search   *)
(* or bulk search of the model.                                             *)

FirstSearch == resp.kind = "none" /\ \E query \in SearchQueries : Search(query)

FirstBulkSearch == resp.kind = "none" /\ \E body \in BulkBodies : BulkSearch(body)

QueryNext == LoadLine \/ LoadData \/ LoadFails \/ FirstSearch \/ FirstBulkSearch

SpecQuery == Init /\ [][QueryNext]_vars

-----------------------------------------------------------------------------
(* Properties of the index stage, the filters and the bulk aggregation,    *)
(* checked under SpecQuery.                                                 *)

Range(s) == {s[i] : i \in DOMAIN s}

\* sub is a contiguous part of s.
IsSubstring(sub, s) ==
    \E i \in 0..Len(s), j \in 0..Len(s) : i <= j /\ SubSeq(s, i + 1, j) = sub

\* The records whose normalised name has the normalised query as a substring.
ExactMatchSet(q) ==
    {c \in Range(contributions) : IsSubstring(normalizeName(q), c.name_normalized)}

BulkOk == resp.kind = "bulk" /\ resp.status = 200

\* C3: in exact mode, single or bulk, a record is a candidate if and only if
\* the normalised query is a substring of the record's normalised name.
C3_ExactCandidates ==
    /\ (resp.kind = "search" /\ ~queryFuzzy(resp.req)) =>
           Range(resp.candidates) = ExactMatchSet(resp.req.name)
    /\ (BulkOk /\ ~bulkFuzzy(resp.req.filters)) =>
           \A i \in DOMAIN resp.iterations :
               Range(resp.iterations[i].candidates)
                   = ExactMatchSet(resp.iterations[i].inputName)

\* C3 witness: an exact bulk search for "Cy  AB" found the one record whose
\* normalised name holds "cy ab", and not the records named "Ab Cy".
C3_Witness ==
    /\ BulkOk /\ ~bulkFuzzy(resp.req.filters)
    /\ \E i \in DOMAIN resp.iterations :
           /\ resp.iterations[i].inputName = <<"C", "y", " ", " ", "A", "B">>
           /\ {c.sub_id : c \in Range(resp.iterations[i].candidates)} = {4}

\* C4: in fuzzy mode the index stage returns at most FuzzyLimit candidates,
\* in single and in bulk search, and the filters run on those candidates, so
\* the filtered result of a name is within the limit too.
C4_FuzzyCap ==
    /\ (resp.kind = "search" /\ queryFuzzy(resp.req) /\ Truthy(resp.req.name)) =>
           /\ Len(resp.candidates) <= FuzzyLimit
           /\ Range(resp.filtered) \subseteq Range(resp.candidates)
           /\ resp.total <= FuzzyLimit
    /\ (BulkOk /\ bulkFuzzy(resp.req.filters)) =>
           \A i \in DOMAIN resp.iterations :
               LET it == resp.iterations[i]
               IN  /\ Len(it.candidates) <= FuzzyLimit
                   /\ Range(it.entry.contributions) \subseteq Range(it.candidates)
                   /\ it.entry.count <= FuzzyLimit

\* C4 witness: a fuzzy bulk search for "b", a token more than FuzzyLimit
\* records hold, returned exactly FuzzyLimit candidates.
C4_Witness ==
    /\ BulkOk /\ bulkFuzzy(resp.req.filters)
    /\ \E i \in DOMAIN resp.iterations :
           /\ resp.iterations[i].inputName = <<"b">>
           /\ Cardinality(ExactMatchSet(<<"b">>)) > FuzzyLimit
           /\ Len(resp.iterations[i].candidates) = FuzzyLimit

\* The tokens of a query: its normalised form split on spaces.
TokensOf(q) == Range(split(normalizeName(q), " "))

\* C5: in fuzzy mode every returned record holds every token of the
\* normalised query in its normalised name.
C5_FuzzyConjunctive ==
    /\ (resp.kind = "search" /\ queryFuzzy(resp.req) /\ Truthy(resp.req.name)) =>
           \A c \in Range(resp.candidates) : \A tok \in TokensOf(resp.req.name) :
               IsSubstring(tok, c.name_normalized)
    /\ (BulkOk /\ bulkFuzzy(resp.req.filters)) =>
           \A i \in DOMAIN resp.iterations :
               \A c \in Range(resp.iterations[i].candidates) :
                   \A tok \in TokensOf(resp.iterations[i].inputName) :
                       IsSubstring(tok, c.name_normalized)

\* C5 witness: a fuzzy bulk search for "Cy  AB" returned records, and left out
\* a record that holds the token "ab" but not the token "cy".
C5_Witness ==
    /\ BulkOk /\ bulkFuzzy(resp.req.filters)
    /\ \E i \in DOMAIN resp.iterations :
           /\ resp.iterations[i].inputName = <<"C", "y", " ", " ", "A", "B">>
           /\ resp.iterations[i].candidates # << >>
           /\ \E c \in Range(contributions) :
                  /\ IsSubstring(<<"a", "b">>, c.name_normalized)
                  /\ ~IsSubstring(<<"c", "y">>, c.name_normalized)
                  /\ c \notin Range(resp.iterations[i].candidates)

FilterNames == {"city", "state", "minAmount", "maxAmount", "startDate", "endDate"}

\* The filters a request carries.
Present(f) == {k \in FilterNames : Truthy(f[k])}

\* One step of the pipeline, by the name of its filter.
applyOne(k, list, f) ==
    CASE k = "city" -> byCity(list, f)
      [] k = "state" -> byState(list, f)
      [] k = "minAmount" -> byMinAmount(list, f)
      [] k = "maxAmount" -> byMaxAmount(list, f)
      [] k = "startDate" -> byStartDate(list, f)
      [] k = "endDate" -> byEndDate(list, f)

RECURSIVE Orders(_)
\* Every order in which the elements of S can be taken.
Orders(S) ==
    IF S = {} THEN {<< >>}
    ELSE UNION {{<<k>> \o rest : rest \in Orders(S \ {k})} : k \in S}

RECURSIVE applyInOrder(_, _, _)
applyInOrder(order, list, f) ==
    IF order = << >> THEN list
    ELSE applyInOrder(Tail(order), applyOne(Head(order), list, f), f)

\* The filter set f with only the filters of S left in it.
Only(f, S) == [k \in FilterNames |-> IF k \in S THEN f[k] ELSE Null]

\* The candidates that pass every filter of f, each taken on its own.
PassAll(candidates, f) ==
    {c \in Range(candidates) : \A k \in Present(f) : applyOne(k, <<c>>, f) = <<c>>}

\* The result of the pipeline on candidates is the same set whatever the
\* order of the filters, and however they are split into two successive runs.
OrderIndependent(candidates, f, result) ==
    /\ Range(result) = PassAll(candidates, f)
    /\ \A order \in Orders(Present(f)) :
           Range(applyInOrder(order, candidates, f)) = Range(result)
    /\ \A S \in SUBSET Present(f) :
           Range(applyFilters(applyFilters(candidates, Only(f, S)),
                              Only(f, Present(f) \ S))) = Range(result)

\* C6: the records a request returns are the candidates that satisfy all of
\* its filters, and applying the filters in any order, or in two successive
\* groups, gives that same set.
C6_FilterOrderIndependent ==
    /\ resp.kind = "search" =>
           OrderIndependent(resp.candidates, resp.req, resp.filtered)
    /\ BulkOk =>
           \A i \in DOMAIN resp.iterations :
               OrderIndependent(resp.iterations[i].candidates, resp.req.filters,
                                resp.iterations[i].entry.contributions)

\* C6 witness: a bulk search with the city, state and minAmount filters kept
\* some of the candidates of a name and dropped others.
C6_Witness ==
    /\ BulkOk
    /\ Present(resp.req.filters) = {"city", "state", "minAmount"}
    /\ \E i \in DOMAIN resp.iterations :
           /\ resp.iterations[i].entry.count >= 2
           /\ resp.iterations[i].entry.count < Len(resp.iterations[i].candidates)

RECURSIVE SumOver(_, _)
\* The sum of g[x] over the elements x of the finite set S.
SumOver(S, g) ==
    IF S = {} THEN 0
    ELSE LET x == CHOOSE y \in S : TRUE IN g[x] + SumOver(S \ {x}, g)

C8_SummaryTotals ==
    BulkOk =>
        LET R == DOMAIN resp.results
        IN  /\ resp.summary.totalContributions
                   = SumOver(R, [i \in R |-> resp.results[i].value.count])
            /\ resp.summary.totalAmount
                   = SumOver(R, [i \in R |-> resp.results[i].value.totalAmount])

\* C8 witness: a bulk search with a repeated name and another name, both with
\* matches, answered with two entries and a summary over them.
C8_Witness ==
    /\ BulkOk
    /\ Len(resp.cleanNames) > Len(resp.results)
    /\ Len(resp.results) >= 1
    /\ \A i \in DOMAIN resp.results : resp.results[i].value.count > 0
    /\ resp.summary.totalAmount > 0

\* C9, as claimed: the keys of the results mapping are exactly the distinct
\* trimmed non-empty input names, one entry each; an entry with count 0 has no
\* matches; and namesWithResults is the number of entries with count > 0.
C9_KeysAreInputNames ==
    BulkOk =>
        LET keys == {resp.results[i].key : i \in DOMAIN resp.results}
            wanted == {trim(n) : n \in Range(resp.req.names)} \ {<< >>}
        IN  /\ keys = wanted
            /\ Len(resp.results) = Cardinality(wanted)
            /\ \A i \in DOMAIN resp.results :
                   resp.results[i].value.count = 0 => resp.results[i].value.matches = << >>
            /\ resp.summary.namesWithResults
                   = Cardinality({i \in DOMAIN resp.results : resp.results[i].value.count > 0})

\* C10, as claimed: while the timer of a bulk search is pending, the cache
\* holds under its searchId the union of the entries' matched records: every
\* record of an entry, no other record, and each record once.
C10_CacheHoldsUnion ==
    (BulkOk /\ timerPending(timers, resp.searchId)) =>
        /\ cacheHas(searchResultsCache, resp.searchId)
        /\ LET cached == cacheGet(searchResultsCache, resp.searchId)
               matched == UNION {Range(resp.results[i].value.contributions) :
                                    i \in DOMAIN resp.results}
           IN  /\ Range(cached) = matched
               /\ \A i, j \in DOMAIN cached : cached[i] = cached[j] => i = j

-----------------------------------------------------------------------------
(* Properties of the amount and date filters, checked under SpecQuery.     *)

\* The filters of the request that was answered.
RespFilters == IF resp.kind = "bulk" THEN resp.req.filters ELSE resp.req

\* The request was a search or a bulk search that got past the checks of its
\* names.
Filtered == resp.kind = "search" \/ BulkOk

\* An amount bound that was given and is not a number.
Unparseable(x) == x # Null /\ x # << >> /\ parseFloat(x).nan

\* C14, as claimed: a search or bulk search whose minAmount or maxAmount does
\* not parse as a number is answered with a validation error, status 400.
C14_BadAmountRejected ==
    ((resp.kind = "search" \/ resp.kind = "bulk")
         /\ (Unparseable(RespFilters.minAmount) \/ Unparseable(RespFilters.maxAmount)))
        => resp.status = 400

\* A date bound that was given and that moment does not take for a date.
InvalidDate(x) == Truthy(x) /\ ~momentParse(x).valid

\* The results object of the bulk search that was answered, had its filters
\* been f.
BulkResultsWith(f) ==
    buildResults([i \in DOMAIN resp.cleanNames |->
                     bulkIteration(contributions, resp.cleanNames[i], f)])

\* C15: a startDate or endDate that is not a valid date is no constraint: the
\* request is answered 200 with the result it has when that bound is absent.
C15_InvalidDateIgnored ==
    \A k \in {"startDate", "endDate"} :
        (Filtered /\ InvalidDate(RespFilters[k])) =>
            /\ resp.status = 200
            /\ IF resp.kind = "search"
               THEN LET without == searchResponse(contributions, [resp.req EXCEPT ![k] = Null])
                    IN  /\ resp.filtered = without.filtered
                        /\ resp.contributions = without.contributions
                        /\ resp.total = without.total
               ELSE resp.results = BulkResultsWith([resp.req.filters EXCEPT ![k] = Null])

\* C15 witness: a search with a valid startDate and an endDate that is not a
\* date was answered with some of the records, not all.
C15_Witness ==
    /\ resp.kind = "search"
    /\ InvalidDate(resp.req.endDate)
    /\ momentParse(resp.req.startDate).valid
    /\ resp.total > 0
    /\ resp.total < Len(contributions)

\* An amount bound that was given and is a number.
ValidAmount(x) == x # Null /\ x # << >> /\ ~parseFloat(x).nan

\* The amount of c is within the bounds of f that are numbers.
WithinAmounts(c, f) ==
    /\ ValidAmount(f.minAmount) => c.amount >= parseFloat(f.minAmount).v
    /\ ValidAmount(f.maxAmount) => c.amount <= parseFloat(f.maxAmount).v

\* f without its amount bounds.
NoAmounts(f) == [f EXCEPT !.minAmount = Null, !.maxAmount = Null]

\* C16, as claimed: with a minAmount or maxAmount that is a number, the
\* records kept are the records the request keeps without the amount bounds
\* whose amount is >= minAmount and <= maxAmount, a record at the bound being
\* kept; the count and totalAmount of a bulk entry are taken over these.
C16_AmountBoundsInclusive ==
    (Filtered /\ (ValidAmount(RespFilters.minAmount) \/ ValidAmount(RespFilters.maxAmount))) =>
        IF resp.kind = "search"
        THEN resp.filtered =
                 SelectSeq(searchResponse(contributions, NoAmounts(resp.req)).filtered,
                           LAMBDA c : WithinAmounts(c, resp.req))
        ELSE LET without == BulkResultsWith(NoAmounts(resp.req.filters))
             IN  /\ DOMAIN resp.results = DOMAIN without
                 /\ \A i \in DOMAIN resp.results :
                        LET entry == resp.results[i].value
                            kept == SelectSeq(without[i].value.contributions,
                                              LAMBDA c : WithinAmounts(c, resp.req.filters))
                        IN  /\ entry.contributions = kept
                            /\ entry.count = Len(kept)
                            /\ entry.totalAmount = SumAmount(kept)

\* A date bound that was given and is a valid date.
ValidDate(x) == Truthy(x) /\ momentParse(x).valid

\* The bound YYYY-MM-DD packed as MMDDYYYY: its month, day and year digits.
Packed(x) == SubSeq(x, 6, 7) \o SubSeq(x, 9, 10) \o SubSeq(x, 1, 4)

\* s <= t for two strings of eight digits compared as strings: they are equal,
\* or s has the smaller digit at the first place where they differ.
PackedLeq(s, t) ==
    \/ s = t
    \/ \E i \in 1..8 :
           /\ \A j \in 1..(i - 1) : s[j] = t[j]
           /\ DigitValue(s[i]) < DigitValue(t[i])

\* The date string of c is within the date bounds of f that are valid.
WithinPacked(c, f) ==
    /\ ValidDate(f.startDate) => PackedLeq(Packed(f.startDate), c.date)
    /\ ValidDate(f.endDate) => PackedLeq(c.date, Packed(f.endDate))

\* f without its date bounds.
NoDates(f) == [f EXCEPT !.startDate = Null, !.endDate = Null]

\* C17: with a startDate or endDate that is a valid date, the records kept
\* are the records the request keeps without the date bounds whose 8-character
\* date string is >= the start bound and <= the end bound, the bounds packed
\* as MMDDYYYY and compared as strings; a record dated at a bound is kept.
C17_DateBoundsAsStrings ==
    (Filtered /\ (ValidDate(RespFilters.startDate) \/ ValidDate(RespFilters.endDate))) =>
        IF resp.kind = "search"
        THEN resp.filtered =
                 SelectSeq(searchResponse(contributions, NoDates(resp.req)).filtered,
                           LAMBDA c : WithinPacked(c, resp.req))
        ELSE LET without == BulkResultsWith(NoDates(resp.req.filters))
             IN  /\ DOMAIN resp.results = DOMAIN without
                 /\ \A i \in DOMAIN resp.results :
                        resp.results[i].value.contributions =
                            SelectSeq(without[i].value.contributions,
                                      LAMBDA c : WithinPacked(c, resp.req.filters))

\* C17 witness: a search with a valid startDate kept a record dated at the
\* bound and dropped another record.
C17_Witness ==
    /\ resp.kind = "search"
    /\ ValidDate(resp.req.startDate)
    /\ \E i \in DOMAIN resp.filtered : resp.filtered[i].date = Packed(resp.req.startDate)
    /\ resp.total < Len(resp.candidates)

\* A date as year, month, day: of a record's MMDDYYYY string, and of a bound
\* written YYYY-MM-DD.  In this form the order of the digit strings is the
\* order of the days.
ChronOfRecord(d) == SubSeq(d, 5, 8) \o SubSeq(d, 1, 4)
ChronOfBound(x) == SubSeq(x, 1, 4) \o SubSeq(x, 6, 7) \o SubSeq(x, 9, 10)

\* The day of c is on or after startDate and on or before endDate.
WithinRange(c, f) ==
    /\ PackedLeq(ChronOfBound(f.startDate), ChronOfRecord(c.date))
    /\ PackedLeq(ChronOfRecord(c.date), ChronOfBound(f.endDate))

\* C18, as claimed: with a valid startDate and a valid endDate the records of
\* a search are the records it keeps without the date bounds whose
\* transaction date is a day from startDate to endDate.
C18_DateRangeChronological ==
    (resp.kind = "search" /\ ValidDate(resp.req.startDate) /\ ValidDate(resp.req.endDate)) =>
        resp.filtered =
            SelectSeq(searchResponse(contributions, NoDates(resp.req)).filtered,
                      LAMBDA c : WithinRange(c, resp.req))

\* The query string of the single search for one name of a bulk search: the
\* same name, the same mode, the same filters, a filter that is a number
\* written as its digits.
SingleQueryOf(inputName, filters) ==
    [name |-> inputName,
     fuzzy |-> IF bulkFuzzy(filters) THEN <<"1">> ELSE Null,
     limit |-> Null, offset |-> Null,
     city |-> filters.city, state |-> filters.state,
     minAmount |-> IF filters.minAmount = Null THEN Null ELSE StringOf(filters.minAmount),
     maxAmount |-> IF filters.maxAmount = Null THEN Null ELSE StringOf(filters.maxAmount),
     startDate |-> filters.startDate, endDate |-> filters.endDate]

\* C25, as claimed: every input name of a bulk search has an entry whose
\* records are, as a set, the records a single search returns for the same
\* name, mode and filters, and whose count is that search's total.
C25_BulkAgreesWithSingle ==
    BulkOk =>
        \A i \in DOMAIN resp.cleanNames :
            LET single == searchResponse(contributions,
                                         SingleQueryOf(resp.cleanNames[i], resp.req.filters))
            IN  \E j \in DOMAIN resp.results :
                    /\ resp.results[j].key = resp.cleanNames[i]
                    /\ Range(resp.results[j].value.contributions) = Range(single.filtered)
                    /\ resp.results[j].value.count = single.total

\* C26, as claimed: GET /api/export with the query string of a search writes
\* one row per record of the search's total: the exported records are, as a
\* set, the records of the search, and as many.
C26_ExportMatchesSearch ==
    resp.kind = "search" =>
        LET exported == exportSearchResponse(contributions, resp.req)
        IN  /\ Range(exported.records) = Range(resp.filtered)
            /\ Len(exported.records) = resp.total

-----------------------------------------------------------------------------
(* Spec: the server starts and then serves requests in any order while    *)
(* time passes and the timers of the bulk searches fire.                   *)

\* The number of successful bulk searches of a behaviour.
MaxRuns == 2

MkQuery(n, z, f) ==
    [name |-> n, fuzzy |-> z, limit |-> Null, offset |-> Null,
     city |-> f.city, state |-> f.state, minAmount |-> f.minAmount,
     maxAmount |-> f.maxAmount, startDate |-> f.startDate, endDate |-> f.endDate]

MkBody(ns, z, f) ==
    [namesIsArray |-> TRUE, names |-> ns,
     filters |-> [fuzzy |-> z, city |-> f.city, state |-> f.state,
                  minAmount |-> f.minAmount, maxAmount |-> f.maxAmount,
                  startDate |-> f.startDate, endDate |-> f.endDate]]

\* Single searches: the whole record set, an exact search with a date bound,
\* a fuzzy search.
ServerQueries == {
    MkQuery(Null, Null, NoFilter),
    MkQuery(<<"a", "b", " ", "c", "y">>, Null, [NoFilter EXCEPT !.startDate = Date_2020_01_15]),
    MkQuery(<<"b">>, <<"1">>, NoFilter) }

\* Bulk searches that are refused: names is absent or is not an array, is
\* empty, is too long, holds blank names only; and bulk searches that throw:
\* a name is a number, the city is a number.
BadBodies == {
    [namesIsArray |-> FALSE, names |-> << >>, filters |-> NoFilter @@ [fuzzy |-> Null]],
    MkBody(<< >>, Null, NoFilter),
    MkBody([i \in 1..(NamesCap + 1) |-> <<"b">>], Null, NoFilter),
    MkBody(<< <<" ">>, << >> >>, Null, NoFilter),
    MkBody(<< <<"b">>, JsonNumber(<<"7">>) >>, Null, NoFilter),
    MkBody(<< <<"b">> >>, Null, [NoFilter EXCEPT !.city = JsonNumber(<<"7">>)]) }

\* Bulk searches: those that are refused or throw, one that matches records,
\* one that matches none.
ServerBodies == BadBodies \cup {
    MkBody(<<<<"a", "b", " ", "c", "y">>>>, Null, NoFilter),
    MkBody(<<<<"z", "z">>>>, Null, NoFilter) }

\* The identifiers an export may ask for: those of the bulk searches, and 0,
\* which no bulk search produces.
ExportIds == 0..MaxRuns

ExportQueries == {
    MkQuery(Null, Null, NoFilter),
    MkQuery(<<"b">>, Null, [NoFilter EXCEPT !.state = <<"n", "y">>]) }

\* The whole record set asked for page by page: limit and offset as they may
\* arrive in the query string.
PagedQueries ==
    {[MkQuery(Null, Null, NoFilter) EXCEPT !.limit = p[1], !.offset = p[2]] :
        p \in {<<<<"2">>, Null>>, <<<<"2">>, <<"2">>>>, <<<<"2">>, <<"4">>>>,
               <<<<"1">>, <<"3">>>>, <<<<"0">>, <<"-", "1">>>>, <<<<"-", "1">>, <<"9">>>>,
               <<<<"2", "0", "0", "0">>, <<"1">>>>, <<<<"x">>, <<"x">>>>}}

ServeSearch == \E query \in ServerQueries \cup PagedQueries : Search(query)

\* At most MaxRuns bulk searches get as far as the cache.
ServeBulkSearch ==
    \E body \in ServerBodies :
        /\ nextId < MaxRuns \/ bulkRejected(body) \/ bulkFails(body)
        /\ BulkSearch(body)

ServeExportBulk == \E searchId \in ExportIds : ExportBulk(searchId)

ServeExportSearch == \E query \in ExportQueries : ExportSearch(query)

Expiry == \E id \in 1..MaxRuns : TimerFires(id)

Next ==
    \/ LoadLine \/ LoadData \/ LoadFails
    \/ ServeSearch \/ ServeBulkSearch \/ ServeExportBulk \/ ServeExportSearch
    \/ Analytics \/ Tick \/ Expiry

Spec == Init /\ [][Next]_vars

-----------------------------------------------------------------------------
(* Properties of the cache and of start-up, checked under Spec.            *)

\* The time-to-live of the entry of id has not elapsed: its timer was set TTL
\* ticks after the insertion and is not due yet.
Fresh(id) == timerPending(timers, id) /\ now < timerDue(timers, id)

\* C11: a lookup of a searchId before the time-to-live of its entry has
\* elapsed hits: the export answers 200 with the records of the entry, also
\* when there is none; right after the bulk search these are the records the
\* bulk search stored, and the answer an export gave is the entry itself.
C11_FreshLookupHits ==
    /\ \A id \in 1..nextId :
           Fresh(id) =>
               LET r == exportBulkResponse(searchResultsCache, id)
               IN  /\ r.status = 200
                   /\ (BulkOk /\ resp.searchId = id) =>
                          r.records = allContributionsOf(resp.results)
    /\ (resp.kind = "exportBulk" /\ Fresh(resp.searchId)) =>
           /\ resp.status = 200
           /\ resp.records = cacheGet(searchResultsCache, resp.searchId)

\* C11 witness: an export of a fresh entry without records answered 200, some
\* time after the bulk search stored it.
C11_Witness ==
    /\ resp.kind = "exportBulk"
    /\ Fresh(resp.searchId)
    /\ now > 0
    /\ resp.status = 200
    /\ resp.records = << >>

\* The time-to-live of the entry of id has elapsed: a bulk search produced id
\* and TTL ticks have passed since.
Expired(id) == id \in 1..nextId /\ ~Fresh(id)

\* C12, as claimed: once the time-to-live of an entry has elapsed, an export
\* of its searchId answers 404.
C12_ExpiredLookupMisses ==
    [][\A id \in ExportIds :
          (ExportBulk(id) /\ Expired(id)) => resp'.status = 404]_vars

\* No bulk search has produced id.
NeverProduced(id) == id \notin 1..nextId

\* C13: an export of a searchId no bulk search has produced answers 404,
\* whatever the cache holds, and leaves the cache as it was.
C13_UnknownIdNotFound ==
    [][\A id \in ExportIds :
          (ExportBulk(id) /\ NeverProduced(id)) =>
              /\ resp'.status = 404
              /\ searchResultsCache' = searchResultsCache
              /\ timers' = timers]_vars

\* C13 witness: an export of a searchId no bulk search has produced was
\* answered 404 while the cache held an entry.
C13_Witness ==
    /\ resp.kind = "exportBulk"
    /\ NeverProduced(resp.searchId)
    /\ resp.status = 404
    /\ searchResultsCache # {}

\* C19: serving requests never changes the shared record set: while the
\* server listens, the records are those of the load, in the order of the
\* load and with the fields of the load.
C19_RecordsUnchanged == phase = "listening" => contributions = loadContributions

\* C19 witness: after a bulk search, the analytics request was answered with
\* a top list whose order is not the order of the record set.
C19_Witness ==
    /\ resp.kind = "analytics"
    /\ nextId > 0
    /\ resp.topContributions # Take(contributions, TopCount)
    /\ contributions # << >>

\* C20: a request is answered only by a server that listens on the complete
\* record set; the server starts to listen only once every line is loaded,
\* and a server whose load failed never listens.
C20_ServesAfterLoad ==
    [][/\ resp' # resp => (phase = "listening" /\ contributions = loadContributions)
       /\ (phase' = "listening" /\ phase # "listening") =>
              (phase = "loading" /\ contributions = loadContributions)
       /\ phase = "exited" => phase' = "exited"]_vars

\* C20 witness: a search was answered by the listening server.
C20_Witness ==
    /\ resp.kind = "search"
    /\ phase = "listening"
    /\ resp.total = Len(RawLines)

\* C21: a cache entry is written once: an entry that appears is the entry of
\* the bulk search answered in that step, under an identifier the cache did
\* not hold; an entry that stays keeps its records; an entry goes only when
\* its own timer, being due, runs; and an export that answers 200 answers
\* with the records the cache holds under the identifier asked for.
C21_CacheWriteOnce ==
    [][/\ \A id \in ExportIds :
              /\ (cacheHas(searchResultsCache, id) /\ cacheHas(searchResultsCache', id)) =>
                     cacheGet(searchResultsCache', id) = cacheGet(searchResultsCache, id)
              /\ (~cacheHas(searchResultsCache, id) /\ cacheHas(searchResultsCache', id)) =>
                     /\ id \notin 1..nextId
                     /\ resp'.kind = "bulk" /\ resp'.status = 200 /\ resp'.searchId = id
                     /\ cacheGet(searchResultsCache', id) = allContributionsOf(resp'.results)
              /\ (cacheHas(searchResultsCache, id) /\ ~cacheHas(searchResultsCache', id)) =>
                     /\ timerPending(timers, id) /\ timerDue(timers, id) <= now
                     /\ ~timerPending(timers', id)
                     /\ \A t \in timers : t.id # id => t \in timers'
       /\ \A id \in ExportIds :
              (ExportBulk(id) /\ resp'.status = 200) =>
                  resp'.records = cacheGet(searchResultsCache, id)]_vars

\* C21 witness: two bulk searches with different matches ran, the timer of
\* the first has deleted its entry, and an export of the second was answered
\* with the records of the second.
C21_Witness ==
    /\ nextId = 2
    /\ ~cacheHas(searchResultsCache, 1)
    /\ resp.kind = "exportBulk" /\ resp.searchId = 2 /\ resp.status = 200
    /\ resp.records # << >>
    /\ resp.records = cacheGet(searchResultsCache, 2)

\* A field as the CSV contract writes it: between double quotes, its own
\* double quotes written twice, when it holds a comma or a double quote, and
\* as it is otherwise.
RECURSIVE Doubled(_)
Doubled(v) ==
    IF v = << >> THEN << >>
    ELSE (IF Head(v) = DoubleQuote THEN <<DoubleQuote, DoubleQuote>> ELSE <<Head(v)>>)
         \o Doubled(Tail(v))

Rendered(v) ==
    IF \E i \in DOMAIN v : v[i] \in {Comma, DoubleQuote}
    THEN <<DoubleQuote>> \o Doubled(v) \o <<DoubleQuote>>
    ELSE v

\* The fields of record c that the columns of GET /api/export name:
\* committee_id, name, city, state, employer, date, amount.
ExportFields(c) ==
    <<c.cmte_id, c.name, c.city, c.state, c.employer, c.date, numberToString(c.amount)>>

\* The rows of the file of GET /api/export/:searchId, as the contract has them.
BulkRowsRendered(records) ==
    [r \in DOMAIN records |->
        Join([i \in DOMAIN CSV_HEADER |-> Rendered(records[r][CSV_HEADER[i].field])], Comma)]

\* The lines of the file of GET /api/export, as the contract has them.
ExportLinesRendered(records) ==
    [r \in DOMAIN records |->
        Join([i \in 1..7 |-> Rendered(ExportFields(records[r])[i])], Comma) \o <<LineFeed>>]

\* C22, as claimed: the file of either export route is the header followed
\* by one row per record, a row holding for every column of the header the
\* record's field of that column, between double quotes with its double
\* quotes doubled if and only if it holds a comma or a double quote.
C22_CsvContract ==
    /\ (resp.kind = "exportBulk" /\ resp.status = 200) =>
           resp.csv = Join(<<Join([i \in DOMAIN CSV_HEADER |-> CSV_HEADER[i].title], Comma)>>
                           \o BulkRowsRendered(resp.records), LineFeed)
    /\ resp.kind = "exportSearch" =>
           resp.csv = exportHeaderLine \o Flatten(ExportLinesRendered(resp.records))

\* C23: a bulk search that is refused (names absent, not an array, empty,
\* too long, or blank throughout) or that throws while matching is answered
\* with an error, 400 or 500, that carries neither results nor a searchId; it
\* creates no cache entry and sets no timer.
C23_FailedBulkLeavesCache ==
    [][\A body \in BadBodies :
          BulkSearch(body) =>
              /\ resp'.status \in {400, 500}
              /\ DOMAIN resp' \cap {"results", "summary", "searchId"} = {}
              /\ searchResultsCache' = searchResultsCache
              /\ timers' = timers]_vars

\* C23 witness: a bulk search threw and was answered 500 while the cache held
\* the entry of an earlier bulk search.
C23_Witness ==
    /\ resp.kind = "bulk" /\ resp.status = 500
    /\ trimThrows(resp.req.names)
    /\ searchResultsCache # {}
    /\ Cardinality(timers) = Cardinality(searchResultsCache)

\* The limit and the offset the claim gives a request: the number asked for
\* when it is within the range, the nearest end of the range when it is a
\* number outside, the default when none is given or it is not a number.
\* (For limit=0 the claim's "clamped" and "default" name different values; the
\* formula asks for either.)
ClaimedLimits(x) ==
    LET r == parseFloat(x)
    IN  IF r.nan THEN {50}
        ELSE IF r.v = 0 THEN {1, 50}
        ELSE IF r.v < 1 THEN {1}
        ELSE IF r.v > 1000 THEN {1000}
        ELSE {r.v}

ClaimedOffset(x) ==
    LET r == parseFloat(x)
    IN  IF r.nan \/ r.v < 0 THEN 0 ELSE r.v

\* a is not after b in the order of the result: its date string is greater,
\* or the dates are equal and its amount is not less.
NotAfter(a, b) ==
    \/ a.date # b.date /\ PackedLeq(b.date, a.date)
    \/ a.date = b.date /\ a.amount >= b.amount

\* The pages of the request that was answered, asked for one after the other
\* at the offsets 0, limit, 2 * limit, ... up to total.
PagesOf(q, limit, total) ==
    [k \in 1..((total \div limit) + 1) |->
        searchResponse(contributions,
                       [q EXCEPT !.offset = numberToString((k - 1) * limit)]).contributions]

-----------------------------------------------------------------------------
(* SpecAnalytics: the server has loaded one of a range of small data files  *)
(* and answers the analytics request.                                       *)

\* The number of lines of a data file of SpecAnalytics.
MaxLines == 3

AnalyticsLine(n, amt) ==
    [sub_id |-> 0, cmte_id |-> <<"C", "1">>, employer |-> << >>, name |-> n,
     city |-> << >>, state |-> <<"N", "Y">>, transaction_amt |-> amt,
     transaction_dt |-> <<"0", "1", "1", "5", "2", "0", "2", "0">>]

\* Lines whose amounts are at and around the two thresholds, and one line of
\* a contributor whose name is a property of every object.
AnalyticsLines == {
    AnalyticsLine(<<"a">>, <<"1", "0", "0", "0">>),
    AnalyticsLine(<<"a">>, <<"1", "0", "0", "2">>),
    AnalyticsLine(<<"b">>, <<"5", "0", "0", "0">>),
    AnalyticsLine(<<"b">>, <<"5", "0", "0", "2">>),
    AnalyticsLine(ProtoKey, <<"1", "0">>) }

AnalyticsInit ==
    /\ phase = "listening"
    /\ contributions \in {[i \in DOMAIN f |-> parseLine(f[i])] :
                             f \in StringsUpTo(AnalyticsLines, MaxLines)}
    /\ searchResultsCache = {}
    /\ timers = {}
    /\ now = 0
    /\ nextId = 0
    /\ resp = [kind |-> "none"]
    /\ nin = Null
    /\ nout = Null
    /\ nout2 = Null
    /\ npc = 0
    /\ nodeEnv = Null
    /\ ClientInit

AnalyticsNext == Analytics

SpecAnalytics == AnalyticsInit /\ [][AnalyticsNext]_vars

\* The contributors of the record set, and the average amount of one of them
\* against a threshold: the sum of its amounts against its count of records
\* times the threshold.
Contributors == {contributions[i].name : i \in DOMAIN contributions}
RecordsOf(n) == {i \in DOMAIN contributions : contributions[i].name = n}
AmountOf(n) == SumOver(RecordsOf(n), [i \in RecordsOf(n) |-> contributions[i].amount])
AverageAbove(n, t) == AmountOf(n) > t * Cardinality(RecordsOf(n))

\* C27, as claimed: every contributor name is counted in the bucket of its
\* average amount, above 5000 high, above 1000 and at most 5000 medium, at
\* most 1000 low, and the three buckets add up to activeContributors.
C27_RiskBucketsPartition ==
    resp.kind = "analytics" =>
        /\ resp.riskAnalysis.highRisk
               = Cardinality({n \in Contributors : AverageAbove(n, 5000)})
        /\ resp.riskAnalysis.mediumRisk
               = Cardinality({n \in Contributors :
                                 AverageAbove(n, 1000) /\ ~AverageAbove(n, 5000)})
        /\ resp.riskAnalysis.lowRisk
               = Cardinality({n \in Contributors : ~AverageAbove(n, 1000)})
        /\ resp.riskAnalysis.highRisk + resp.riskAnalysis.mediumRisk
               + resp.riskAnalysis.lowRisk = resp.activeContributors

-----------------------------------------------------------------------------
(* SpecRouting: the server is started with some NODE_ENV and answers        *)
(* requests for paths inside and outside /api.                              *)

NodeEnvs == {Null, Development, Production}

Methods == {"GET", "POST", "DELETE"}

Paths == {
    << >>, <<"about">>, <<"index.html">>, <<"static", "main.js">>,
    <<"api">>, <<"api", "health">>, <<"api", "search">>,
    <<"api", "search", "stats">>, <<"api", "bulk-search">>,
    <<"api", "export">>, <<"api", "export", "1">>, <<"api", "analytics">>,
    <<"api", "nothing">> }

Requests == [method : Methods, path : Paths]

\* frontend/build before and after the frontend has been built.
Builds == {{}, {<<"index.html">>, <<"static", "main.js">>}}

\* server.js:100: the listening server takes a request and the stack answers.
Request(request, files) ==
    /\ serving(phase)
    /\ resp' = routedResponse(nodeEnv, request, files)
    /\ UNCHANGED <<phase, contributions, searchResultsCache, timers, now, nextId,
                   normVars, nodeEnv, clientVars>>

ServeRequest == \E request \in Requests, files \in Builds : Request(request, files)

RoutingInit ==
    /\ phase = "loading"
    /\ contributions = loadContributions
    /\ searchResultsCache = {}
    /\ timers = {}
    /\ now = 0
    /\ nextId = 0
    /\ resp = [kind |-> "none"]
    /\ nin = Null
    /\ nout = Null
    /\ nout2 = Null
    /\ npc = 0
    /\ nodeEnv \in NodeEnvs
    /\ ClientInit

RoutingNext == LoadData \/ ServeRequest

SpecRouting == RoutingInit /\ [][RoutingNext]_vars

\* The request is answered by one of the routes under /api.
MatchesApiRoute(request) ==
    \E layer \in {"health", "search", "bulkSearch", "export", "analytics"} :
        answers(layer, request, {})

\* C28, as claimed: in production a request that matches no /api route is
\* answered from the frontend build, by a static file or by index.html, and
\* not by the handler that answers 404 'Endpoint not found'.
C28_ProductionServesFrontend ==
    (resp.kind = "routed" /\ nodeEnv = Production /\ ~MatchesApiRoute(resp.req))
        => /\ resp.layer \in {"static", "index"}
           /\ resp.status # 404

-----------------------------------------------------------------------------
(* SpecReducer: the reducer of the search context under every sequence of   *)
(* its actions.                                                             *)

\* Lists of records, each record standing by its sub_id.
IndividualPayloads == {<< >>, <<"1">>, <<"1", "2">>, <<"3">>}

\* Result objects, each standing by the names it is keyed by, one per line,
\* with the identifier of the search.
BulkPayloads == {
    [results |-> << >>, searchId |-> <<"1">>],
    [results |-> <<"a">>, searchId |-> <<"1">>],
    [results |-> <<"a">>, searchId |-> <<"2">>],
    [results |-> <<"a", LineFeed, "b">>, searchId |-> <<"2">>] }

AnalyticsPayloads == {<<"A">>, <<"B">>}

ErrorPayloads == {Null, <<"Search failed">>, <<"Bulk search failed">>, <<"Pagination failed">>}

\* SearchContext.tsx:147: dispatch(action)
Dispatch(action) ==
    /\ state' = searchReducer(state, action)
    /\ UNCHANGED <<serverVars, normVars, nodeEnv, pageVars>>

SetIndividualResults ==
    \E p \in IndividualPayloads : Dispatch([type |-> "SET_INDIVIDUAL_RESULTS", payload |-> p])
SetBulkResults ==
    \E p \in BulkPayloads : Dispatch([type |-> "SET_BULK_RESULTS", payload |-> p])
SetAnalytics ==
    \E p \in AnalyticsPayloads : Dispatch([type |-> "SET_ANALYTICS", payload |-> p])
SetLoading ==
    \E p \in BOOLEAN : Dispatch([type |-> "SET_LOADING", payload |-> p])
SetError ==
    \E p \in ErrorPayloads : Dispatch([type |-> "SET_ERROR", payload |-> p])
ClearResults == Dispatch([type |-> "CLEAR_RESULTS"])

ReducerNext ==
    \/ SetIndividualResults
    \/ SetBulkResults
    \/ SetAnalytics
    \/ SetLoading
    \/ SetError
    \/ ClearResults

SpecReducer == Init /\ [][ReducerNext]_vars

\* C29: after any sequence of actions, individualResults and bulkResults are
\* never both set, searchId is set exactly when bulkResults is, loading is
\* never true while an error is set, and CLEAR_RESULTS leads from the state
\* to the initial state.
C29_ReducerInvariants ==
    /\ ~(state.individualResults # Null /\ state.bulkResults # Null)
    /\ (state.searchId # Null) <=> (state.bulkResults # Null)
    /\ ~(state.loading /\ state.error # Null)
    /\ searchReducer(state, [type |-> "CLEAR_RESULTS"]) = initialState

\* Bulk results have replaced individual results, with analytics set.
C29_Witness ==
    /\ state.bulkResults = <<"a", LineFeed, "b">>
    /\ state.searchId = <<"2">>
    /\ state.individualResults = Null
    /\ state.analytics = <<"A">>
    /\ state.loading

-----------------------------------------------------------------------------
(* SpecBulkPage: the bulk page with its requests in flight.                 *)

PageNameInputs == {<< >>, <<" ">>, <<"a">>, <<"a", LineFeed, " ", LineFeed, "b">>}

SearchIds == {<<"1">>, <<"2">>}

\* BulkSearch.tsx: the text area's onChange
SetNames(text) ==
    /\ pageNames' = text
    /\ UNCHANGED <<serverVars, normVars, nodeEnv, state, fuzzy, isProcessing,
                   hasSearched, inflight>>

\* BulkSearch.tsx: the fuzzy checkbox's onChange
SetFuzzy ==
    /\ fuzzy' = ~fuzzy
    /\ UNCHANGED <<serverVars, normVars, nodeEnv, state, pageNames, isProcessing,
                   hasSearched, inflight>>

\* part_004:395-411, 606: handleSubmit up to its await.  The button is
\* disabled while isProcessing or while the names are blank.
handleSubmit ==
    /\ ~isProcessing
    /\ trim(pageNames) # << >>
    /\ hasSearched' = TRUE
    /\ isProcessing' = TRUE
    /\ state' = searchReducer(state, [type |-> "SET_LOADING", payload |-> TRUE])
    /\ inflight' = Append(inflight, bulkRequestOf(pageNames, fuzzy))
    /\ UNCHANGED <<serverVars, normVars, nodeEnv, pageNames, fuzzy>>

\* part_004:418-438, 444-446: the POST resolves; the results, keyed by the
\* names of the request, and the searchId are dispatched.
SubmitResolves(searchId) ==
    /\ inflight # << >>
    /\ state' = searchReducer(state,
                   [type |-> "SET_BULK_RESULTS",
                    payload |-> [results |-> Join(Head(inflight).names, LineFeed),
                                 searchId |-> searchId]])
    /\ isProcessing' = FALSE
    /\ inflight' = Tail(inflight)
    /\ UNCHANGED <<serverVars, normVars, nodeEnv, pageNames, fuzzy, hasSearched>>

\* part_004:438-446: the POST rejects; the error is dispatched.
SubmitRejects(message) ==
    /\ inflight # << >>
    /\ state' = searchReducer(state, [type |-> "SET_ERROR", payload |-> message])
    /\ isProcessing' = FALSE
    /\ inflight' = Tail(inflight)
    /\ UNCHANGED <<serverVars, normVars, nodeEnv, pageNames, fuzzy, hasSearched>>

\* part_004:477-485, 613: handleClear; the button is never disabled.  The
\* page's file, city and state inputs, reset here too, are not in the model.
handleClear ==
    /\ pageNames' = << >>
    /\ fuzzy' = FALSE
    /\ hasSearched' = FALSE
    /\ state' = searchReducer(state, [type |-> "CLEAR_RESULTS"])
    /\ UNCHANGED <<serverVars, normVars, nodeEnv, isProcessing, inflight>>

PageNext ==
    \/ \E text \in PageNameInputs : SetNames(text)
    \/ SetFuzzy
    \/ handleSubmit
    \/ \E searchId \in SearchIds : SubmitResolves(searchId)
    \/ \E message \in ErrorPayloads \ {Null} : SubmitRejects(message)
    \/ handleClear

SpecBulkPage == Init /\ [][PageNext]_vars

\* C30, as claimed: after Clear, the context's bulkResults and searchId stay
\* null until a new bulk search is submitted.  hasSearched is false exactly
\* from a Clear (or the mount of the page) to the next submission.
C30_ClearIsEffective ==
    ~hasSearched => (state.bulkResults = Null /\ state.searchId = Null)

-----------------------------------------------------------------------------
(* The normaliser harness: normalizeName applied to every string over      *)
(* NormAlphabet of length at most MaxLen, and to the absent name.           *)

MaxLen == 5

NormAlphabet == {"a", "B", "1", " ", "TAB", ".", "DOTTED_I"}

NormInputs == StringsUpTo(NormAlphabet, MaxLen) \cup {Null}

NormInit ==
    /\ phase = "loading"
    /\ contributions = << >>
    /\ searchResultsCache = {}
    /\ timers = {}
    /\ now = 0
    /\ nextId = 0
    /\ resp = [kind |-> "none"]
    /\ nin \in NormInputs
    /\ nout = Null
    /\ nout2 = Null
    /\ npc = 0
    /\ nodeEnv = Null
    /\ ClientInit

\* name_normalized = normalizeName(name)
NormalizeOnce ==
    /\ npc = 0
    /\ nout' = normalizeName(nin)
    /\ npc' = 1
    /\ UNCHANGED <<nin, nout2>>
    /\ UNCHANGED <<serverVars, nodeEnv, clientVars>>

\* the normalised string is normalised again
NormalizeAgain ==
    /\ npc = 1
    /\ nout2' = normalizeName(nout)
    /\ npc' = 2
    /\ UNCHANGED <<nin, nout>>
    /\ UNCHANGED <<serverVars, nodeEnv, clientVars>>

NormNext == NormalizeOnce \/ NormalizeAgain

SpecNormalize == NormInit /\ [][NormNext]_vars

\* C1: normalizeName is idempotent: normalising an already normalised string
\* gives the same string back.
C1_NormalizeIdempotent == npc = 2 => nout2 = nout

\* C1 witness: a string that normalisation changes (upper case, punctuation,
\* a run of white space) has been normalised twice.
C1_Witness ==
    /\ npc = 2
    /\ nin = <<"a", " ", ".", "TAB", "B">>
    /\ nout = <<"a", " ", "b">>
    /\ nout2 = nout

\* The characters an output of normalizeName may hold.
CanonicalChars == LowerLetters \cup Digits \cup {" "}

\* C2: normalizeName is total and canonical: it yields a string for every
\* input, the empty string for an absent name, and its output holds only
\* [a-z0-9] and single inner spaces.
C2_NormalizeCanonical ==
    npc >= 1 =>
        /\ nout \in Seq(CanonicalChars)
        /\ (nin = Null \/ nin = << >>) => nout = << >>
        /\ nout # << >> => (nout[1] # " " /\ nout[Len(nout)] # " ")
        /\ \A i \in 1..(Len(nout) - 1) : ~(nout[i] = " " /\ nout[i + 1] = " ")

\* C2 witness: the absent name was normalised, or a string with upper case,
\* outer and doubled white space was.
C2_Witness ==
    /\ npc >= 1
    /\ \/ nin = Null /\ nout = << >>
       \/ nin = <<" ", "B", "TAB", " ">> /\ nout = <<"b">>

====
